---------------------------- MODULE Spec2Model ----------------------------
(***************************************************************************)
(* State-machine model of the portfolio backend (server.js): the in-memory *)
(* session registry, requireAuth and the /admin gate, login / logout /     *)
(* change-password, the two express-rate-limit instances, and the contact   *)
(* submission route.                                                         *)
(*                                                                         *)
(* Time is Date.now() in milliseconds.  Requests that await (bcrypt) are    *)
(* split at their first suspension point: the part before it is one action, *)
(* the continuation another, and other requests may run in between.         *)
(***************************************************************************)
EXTENDS Integers, Sequences, FiniteSets, TLC

\* ------------------------------------------------------------- bounds
\* Session tokens that can be issued in one behaviour.
MaxTokens == 2
\* Clock advances in one behaviour.
MaxAdvances == 1
\* Requests one client IP sends inside one general-limiter window, in the
\* specifications that do not follow a limiter to its quota.
MaxHits == 3
\* Requests of one client IP followed past a limiter's quota.
MaxOver == 1
\* Requests suspended at an await at the same time.
MaxInflight == 1
\* Records the contact store holds.
MaxContacts == 2

\* ---------------------------------------------------------- constants
SESSION_TTL == 24 * 60 * 60 * 1000
WINDOW_MS == 15 * 60 * 1000
GENERAL_MAX == 100
AUTH_MAX == 5
BCRYPT_COST == 12

IPs == {"10.0.0.1", "10.0.0.2"}
\* The client of the specifications with one client.
Client == "10.0.0.1"
\* The requests of a client followed in a window when a limiter is followed to
\* its quota `max`: the first client's past the quota, the other's a few.
Cap(ip, max) == IF ip = Client THEN max + MaxOver ELSE MaxHits

\* The clock moves by one of these amounts (ms): to the last instant of a
\* session or of a limiter window, or to the first instant after it.
SessionDeltas == {SESSION_TTL, SESSION_TTL + 1}
WindowDeltas == {WINDOW_MS - 1, WINDOW_MS}

Tokens == 1..MaxTokens
\* 0 stands for an absent (or empty, hence falsy) header, cookie or parameter.
NoToken == 0
TokenVals == {NoToken} \cup Tokens

VARIABLES
  now,          \* Date.now()
  advances,     \* number of clock advances so far (bounds the behaviour)
  sessions,     \* the `sessions` Map: token -> session record
  issued,       \* number of tokens generated so far
  credentials,  \* parsed content of admin-credentials.json
  generalHits,  \* store of `limiter`: ip -> [count, resetTime]
  authHits,     \* store of `authLimiter`: ip -> [count, resetTime]
  loginHits,    \* history: POST /api/login requests of ip that reached authLimiter in its current window
  lastChange,   \* history: passwords of the last successful change-password
  pending,      \* requests suspended at an await (no two identical ones)
  contacts,     \* parsed content of contacts.json
  mailQueue,    \* notifications handed to sendContactEmail
  contactsFile, \* whether contacts.json exists
  sent,         \* store data in the body of the last response
  resp,         \* the last request handled and its response
  vault,        \* whether emailCredentials.getCredentials() yields credentials
  transporter,  \* whether `transporter` is set (not null)
  mails,        \* the calls of sendContactEmail, one for each entry of mailQueue
  req,          \* a request at the sanitizing middleware: its body before and after
  vaultFile,    \* assets/email-credentials.enc
  got,          \* the outcome of the last call of getCredentials()
  profileCache,     \* `profileCache`: the cached document, or null
  profileCacheTime, \* `profileCacheTime`
  profileFile,  \* assets/profile.json
  corrupt       \* what contacts.json holds: "no" for the array `contacts`,
                \* "empty" for no text at all, "text" for text that JSON.parse
                \* rejects, "object" for JSON that is not an array

\* The state of the notification email.
mailVars == <<vault, transporter, mails>>

\* The credential vault and its last call.
vaultVars == <<vaultFile, got>>

\* The profile document and its cache.
profileVars == <<profileCache, profileCacheTime, profileFile>>

vars == <<now, advances, sessions, issued, credentials, generalHits, authHits,
          loginHits, lastChange, pending, contacts, mailQueue, contactsFile,
          sent, resp, mailVars, req, vaultVars, profileVars, corrupt>>

\* ------------------------------------------------- passwords and bcrypt
\* A request's password: its text, with the attributes of the text that
\* express-validator and bcryptjs look at (length, a letter, a digit, and the
\* first 72 bytes, which is all bcrypt hashes).  The text is the body field
\* as the handlers see it, after the sanitizing middleware, which leaves
\* these texts as they are.
Pw(text, len, letter, digit, head) ==
  [text |-> text, len |-> len, letter |-> letter, digit |-> digit, head |-> head]

Head72 == "a1xxxxxxxxxxxxxxxxxxxxxxxxxxxxxxxxxxxxxxxxxxxxxxxxxxxxxxxxxxxxxxxxxxxxxx"
PwEmpty == Pw("", 0, FALSE, FALSE, "")
PwShort == Pw("abc", 3, TRUE, FALSE, "abc")
PwDefault == Pw("admin123", 8, TRUE, TRUE, "admin123")
PwSecret == Pw("secret42", 8, TRUE, TRUE, "secret42")
PwLongA == Pw("a1xxxxxxxxxxxxxxxxxxxxxxxxxxxxxxxxxxxxxxxxxxxxxxxxxxxxxxxxxxxxxxxxxxxxxxA", 73, TRUE, TRUE, Head72)
PwLongB == Pw("a1xxxxxxxxxxxxxxxxxxxxxxxxxxxxxxxxxxxxxxxxxxxxxxxxxxxxxxxxxxxxxxxxxxxxxxB", 73, TRUE, TRUE, Head72)

Passwords == {PwEmpty, PwShort, PwDefault, PwSecret, PwLongA, PwLongB}

\* bcrypt.hash(p, cost): the salt is left out, compare does not depend on it.
BcryptHash(p, cost) == [alg |-> "bcrypt", cost |-> cost, key |-> p.head]

\* bcrypt.compare(p, hash)
BcryptCompare(p, hash) == hash.key = p.head

\* A request's username, with its text after .trim() and whether the trimmed
\* text has 1..50 characters, all in [a-zA-Z0-9_].
Un(text, trimmed, ok) == [text |-> text, trimmed |-> trimmed, ok |-> ok]

Usernames ==
  { Un("admin", "admin", TRUE), Un(" admin", "admin", TRUE),
    Un("guest", "guest", TRUE), Un("", "", FALSE) }

\* ----------------------------------------------------------- credentials
\* A bootstrap record whose hash is not that of the logged password.
DefaultCredentialsOtherHash ==
  [ username |-> "admin", passwordHash |-> BcryptHash(PwSecret, BCRYPT_COST),
    createdAt |-> 0, updatedAt |-> 0,
    updatedBy |-> "system", updatedFrom |-> "auto-setup" ]

\* The record initAdminCredentials writes: admin / admin123.
DefaultCredentials ==
  [ username |-> "admin", passwordHash |-> BcryptHash(PwDefault, BCRYPT_COST),
    createdAt |-> 0, updatedAt |-> 0,
    updatedBy |-> "system", updatedFrom |-> "auto-setup" ]

\* A record left in admin-credentials.json by an earlier run.
ExistingCredentials ==
  [ username |-> "admin", passwordHash |-> BcryptHash(PwSecret, BCRYPT_COST),
    createdAt |-> 0, updatedAt |-> 0,
    updatedBy |-> "admin", updatedFrom |-> "10.0.0.1" ]

\* A bootstrap that writes the default record whatever it finds.
initAdminCredentialsOverwriting(fileExists, file) == DefaultCredentials

\* initAdminCredentials: the file is written only when it does not exist.
initAdminCredentials(fileExists, file) ==
  IF ~fileExists THEN DefaultCredentials ELSE file

NoChange == [old |-> PwEmpty, new |-> PwEmpty]

\* ---------------------------------------------------------- rate limiting
NoHits == [count |-> 0, resetTime |-> 0]

\* MemoryStore.increment of express-rate-limit: a key's window is reset when
\* its resetTime has passed, then the hit is counted.
Hit(entry) ==
  IF entry.resetTime <= now
    THEN [count |-> 1, resetTime |-> now + WINDOW_MS]
    ELSE [entry EXCEPT !.count = @ + 1]

\* A limiter that rejects the hit that reaches max.
LimitedFromMax(entry, max) == entry.count >= max

\* The middleware answers 429 when the key's hits exceed max.
Limited(entry, max) == entry.count > max

GeneralMessage == "Too many requests from this IP, please try again later."
AuthMessage == "Too many login attempts, please try again later."

\* The requests of ip the model still follows in the current window.
Budget(ip, cap) == Hit(generalHits[ip]).count <= cap

\* ---------------------------------------------------------------- requests
\* The places a request can carry a session token in.
Carrier(a, x, q, c) ==
  [authorization |-> a, xSessionId |-> x, session |-> q, adminSession |-> c]

NoCarrier == Carrier(NoToken, NoToken, NoToken, NoToken)

\* Requests with a token in at most one place.
Carriers ==
  { h \in [authorization : TokenVals, xSessionId : TokenVals,
           session : TokenVals, adminSession : TokenVals] :
      Cardinality({f \in DOMAIN h : h[f] # NoToken}) <= 1 }

\* a || b || c on values of which NoToken is the falsy one.
Or3(a, b, c) == IF a # NoToken THEN a ELSE IF b # NoToken THEN b ELSE c

\* A response: the route answering, the status, the error text of the body
\* (the redirect target for a 302) and, for a login, the sessionId returned.
Response(route, status, error, token) ==
  [route |-> route, status |-> status, error |-> error, token |-> token]

\* The handler of the last request is suspended at an await: no response yet.
Awaiting(route) == Response(route, 0, "", NoToken)

\* ------------------------------------------------------------- requireAuth
RequireAuthToken(h) == Or3(h.authorization, h.xSessionId, h.adminSession)

Remove(map, key) == [k \in DOMAIN map \ {key} |-> map[k]]

\* requireAuth with the expiry test taken as expiresAt <= now.
requireAuthExpiringEarly(reg, h) ==
  LET sessionId == RequireAuthToken(h) IN
  IF sessionId = NoToken \/ sessionId \notin DOMAIN reg
    THEN [status |-> 401, error |-> "Authentication required", sessions |-> reg]
  ELSE IF reg[sessionId].expiresAt <= now
    THEN [status |-> 401, error |-> "Session expired",
          sessions |-> Remove(reg, sessionId)]
  ELSE [status |-> 200, error |-> "",
        sessions |-> [reg EXCEPT ![sessionId].expiresAt = now + SESSION_TTL]]

\* A requireAuth that falls back on the next place when the token of a place
\* is not that of a live session.
requireAuthFallingBack(reg, h) ==
  LET live == {t \in {h.authorization, h.xSessionId, h.adminSession} :
                 t \in DOMAIN reg /\ reg[t].expiresAt >= now}
      sessionId == IF live = {} THEN RequireAuthToken(h)
                   ELSE CHOOSE t \in live : \A u \in live : t <= u
  IN
  IF sessionId = NoToken \/ sessionId \notin DOMAIN reg
    THEN [status |-> 401, error |-> "Authentication required", sessions |-> reg]
  ELSE IF reg[sessionId].expiresAt < now
    THEN [status |-> 401, error |-> "Session expired",
          sessions |-> Remove(reg, sessionId)]
  ELSE [status |-> 200, error |-> "",
        sessions |-> [reg EXCEPT ![sessionId].expiresAt = now + SESSION_TTL]]

\* The outcome of requireAuth on the registry: the status it answers with
\* (200 stands for next()) and the registry it leaves.
requireAuth(reg, h) ==
  LET sessionId == RequireAuthToken(h) IN
  IF sessionId = NoToken \/ sessionId \notin DOMAIN reg
    THEN [status |-> 401, error |-> "Authentication required", sessions |-> reg]
  ELSE IF reg[sessionId].expiresAt < now
    THEN [status |-> 401, error |-> "Session expired",
          sessions |-> Remove(reg, sessionId)]
  ELSE [status |-> 200, error |-> "",
        sessions |-> [reg EXCEPT ![sessionId].expiresAt = now + SESSION_TTL]]

\* ------------------------------------------------------- app.use("/admin")
\* req.url below the mount point, with what the gate and the router read of
\* it: its path, and whether the text includes "." and ".html".
Url(text, path, dot, html) == [text |-> text, path |-> path, dot |-> dot, html |-> html]

AdminUrls ==
  { Url("/contacts", "/contacts", FALSE, FALSE),
    Url("/contacts?v=1.0", "/contacts", TRUE, FALSE),
    Url("/contacts/download-txt", "/contacts/download-txt", FALSE, FALSE),
    Url("/style.css", "/style.css", TRUE, FALSE),
    Url("/index.html", "/index.html", TRUE, TRUE) }

AdminGateToken(h) ==
  IF h.authorization # NoToken THEN h.authorization
  ELSE Or3(h.xSessionId, h.session, h.adminSession)

\* The gate without its expiry test.
adminGateNoExpiry(reg, h, url) ==
  LET sessionId == AdminGateToken(h) IN
  IF url.dot /\ ~url.html
    THEN [verdict |-> "skip", sessions |-> reg]
  ELSE IF sessionId = NoToken \/ sessionId \notin DOMAIN reg
    THEN [verdict |-> "redirect", sessions |-> reg]
  ELSE [verdict |-> "next", sessions |-> reg]

\* A gate that extends the session it admits.
adminGateExtending(reg, h, url) ==
  LET sessionId == AdminGateToken(h) IN
  IF url.dot /\ ~url.html
    THEN [verdict |-> "skip", sessions |-> reg]
  ELSE IF sessionId = NoToken \/ sessionId \notin DOMAIN reg
    THEN [verdict |-> "redirect", sessions |-> reg]
  ELSE IF reg[sessionId].expiresAt < now
    THEN [verdict |-> "redirect", sessions |-> Remove(reg, sessionId)]
  ELSE [verdict |-> "next",
        sessions |-> [reg EXCEPT ![sessionId].expiresAt = now + SESSION_TTL]]

\* The outcome of the gate: "skip" (a static file, next() without a check),
\* "redirect" (to /login) or "next" (session found and not expired).
adminGate(reg, h, url) ==
  LET sessionId == AdminGateToken(h) IN
  IF url.dot /\ ~url.html
    THEN [verdict |-> "skip", sessions |-> reg]
  ELSE IF sessionId = NoToken \/ sessionId \notin DOMAIN reg
    THEN [verdict |-> "redirect", sessions |-> reg]
  ELSE IF reg[sessionId].expiresAt < now
    THEN [verdict |-> "redirect", sessions |-> Remove(reg, sessionId)]
  ELSE [verdict |-> "next", sessions |-> reg]

\* The routes registered under /admin, both behind requireAuth.
AdminRoutes == {"/contacts", "/contacts/download-txt"}

\* ------------------------------------------------------- contact store
\* initContactsFile: contacts.json is written, holding [], when it is not
\* there at startup, and is left as it is otherwise.
initContactsFile(fileExists, file) == IF ~fileExists THEN <<>> ELSE file

\* What a response carries of the store: the list of records ("list"), the
\* id of the record just saved ("id"), or a count ("remaining", "deleted").
Data(kind, list, n) == [kind |-> kind, list |-> list, n |-> n]
NoData == Data("none", <<>>, 0)

\* n copies of the text s.
RECURSIVE Repeat(_, _)
Repeat(s, n) ==
  IF n = 0 THEN ""
  ELSE LET half == Repeat(s, n \div 2) IN
       IF n % 2 = 0 THEN half \o half ELSE half \o half \o s

Min(a, b) == IF a <= b THEN a ELSE b

\* s.substring(0, n)
Substring(s, n) == SubSeq(s, 1, Min(n, Len(s)))

\* The i-th character of s.
Char(s, i) == SubSeq(s, i, i)

Whitespace == {" "}

\* s.trim(), on texts whose only whitespace is the blank.
RECURSIVE TrimStart(_)
TrimStart(s) ==
  IF Len(s) > 0 /\ Char(s, 1) \in Whitespace THEN TrimStart(SubSeq(s, 2, Len(s))) ELSE s

RECURSIVE TrimEnd(_)
TrimEnd(s) ==
  IF Len(s) > 0 /\ Char(s, Len(s)) \in Whitespace
    THEN TrimEnd(SubSeq(s, 1, Len(s) - 1)) ELSE s

Trim(s) == TrimEnd(TrimStart(s))

UpperCase == <<"A", "B", "C", "D", "E", "F", "G", "H", "I", "J", "K", "L", "M",
               "N", "O", "P", "Q", "R", "S", "T", "U", "V", "W", "X", "Y", "Z">>
LowerCase == <<"a", "b", "c", "d", "e", "f", "g", "h", "i", "j", "k", "l", "m",
               "n", "o", "p", "q", "r", "s", "t", "u", "v", "w", "x", "y", "z">>
Digit == <<"0", "1", "2", "3", "4", "5", "6", "7", "8", "9">>

Range(f) == {f[i] : i \in DOMAIN f}

Letters == Range(UpperCase) \cup Range(LowerCase)
Digits == Range(Digit)

\* The lower-case letter of each upper-case letter.
Lowered == [c \in Range(UpperCase) |->
              LowerCase[CHOOSE i \in DOMAIN UpperCase : UpperCase[i] = c]]

LowerChar(c) == IF c \in DOMAIN Lowered THEN Lowered[c] ELSE c

\* A toLowerCase that leaves the text as it is.
ToLowerCaseKept(s) == s

\* s.toLowerCase(), on ASCII texts.
RECURSIVE ToLowerCase(_)
ToLowerCase(s) ==
  IF s = "" THEN "" ELSE LowerChar(Char(s, 1)) \o ToLowerCase(SubSeq(s, 2, Len(s)))

NameAlphabet == Letters \cup Whitespace \cup {"-", "'", "."}

\* .matches(/^[a-zA-Z\s\-'.]+$/)
NameChars(s) ==
  /\ Len(s) > 0
  /\ \A i \in 1..Len(s) :
       Char(s, i) \in NameAlphabet

\* .isEmail(), on the texts of the model: one "@", something before it, and
\* after it a domain with a dot inside.
IsEmail(s) ==
  LET ats == {i \in 1..Len(s) : Char(s, i) = "@"} IN
  /\ Cardinality(ats) = 1
  /\ LET at == CHOOSE i \in ats : TRUE IN
     /\ at > 1
     /\ \E i \in (at + 2)..(Len(s) - 1) : Char(s, i) = "."
     /\ \A i \in 1..Len(s) : Char(s, i) \notin Whitespace

\* .normalizeEmail(): lowercases; the provider-specific rewrites do not
\* apply to the domains of the model.
NormalizeEmail(s) == ToLowerCase(s)

\* n in decimal, padded with zeros to width w.
Pad(n, w) ==
  LET t == ToString(n) IN Repeat("0", w - Len(t)) \o t

MS_PER_DAY == 24 * 60 * 60 * 1000

\* new Date(ms).toISOString(), for the instants of January 1970.
ToISOString(ms) ==
  LET day == ms \div MS_PER_DAY
      rest == ms % MS_PER_DAY
  IN "1970-01-" \o Pad(day + 1, 2) \o "T" \o Pad(rest \div 3600000, 2) \o ":"
       \o Pad((rest \div 60000) % 60, 2) \o ":" \o Pad((rest \div 1000) % 60, 2)
       \o "." \o Pad(rest % 1000, 3) \o "Z"

\* Whether s has the form YYYY-MM-DDTHH:mm:ss.sssZ.
IsISO8601(s) ==
  /\ Len(s) = 24
  /\ \A i \in 1..24 :
       IF i \in {5, 8} THEN Char(s, i) = "-"
       ELSE IF i = 11 THEN Char(s, i) = "T"
       ELSE IF i \in {14, 17} THEN Char(s, i) = ":"
       ELSE IF i = 20 THEN Char(s, i) = "."
       ELSE IF i = 24 THEN Char(s, i) = "Z"
       ELSE Char(s, i) \in Digits

\* The value of each decimal digit.
DigitValue == [c \in Digits |-> (CHOOSE i \in DOMAIN Digit : Digit[i] = c) - 1]

\* The value of a text of decimal digits.
RECURSIVE DigitsValue(_)
DigitsValue(s) ==
  IF s = "" THEN 0
  ELSE 10 * DigitsValue(SubSeq(s, 1, Len(s) - 1))
       + DigitValue[Char(s, Len(s))]

\* The length of the longest prefix of s made of decimal digits.
RECURSIVE DigitsPrefix(_)
DigitsPrefix(s) ==
  IF Len(s) > 0 /\ Char(s, 1) \in Digits
    THEN 1 + DigitsPrefix(SubSeq(s, 2, Len(s))) ELSE 0

\* parseInt(s) in radix 10: leading whitespace and a sign are skipped, the
\* digits that follow are read, whatever comes after them is ignored; NaN
\* when there is no digit to read.
ParseInt(s) ==
  LET t == TrimStart(s)
      signed == Len(t) > 0 /\ Char(t, 1) \in {"-", "+"}
      body == IF signed THEN SubSeq(t, 2, Len(t)) ELSE t
      n == DigitsPrefix(body)
  IN IF n = 0 THEN [nan |-> TRUE, value |-> 0]
     ELSE [nan |-> FALSE,
           value |-> (IF signed /\ Char(t, 1) = "-" THEN -1 ELSE 1)
                     * DigitsValue(SubSeq(body, 1, n))]

\* contact.id !== contactId, contactId a result of parseInt
IdDiffers(id, parsed) == parsed.nan \/ id # parsed.value

\* contacts.filter(contact => contact.id !== contactId)
FilterOut(list, parsed) == SelectSeq(list, LAMBDA c : IdDiffers(c.id, parsed))

\* ------------------------------------------------------------ text export
\* new Date(ts).toLocaleString() in the en-US locale and the UTC zone of the
\* server: "M/D/YYYY, h:mm:ss AM" for an ISO timestamp, "Invalid Date" for
\* text that Date cannot read.
ToLocaleString(ts) ==
  IF ~IsISO8601(ts) THEN "Invalid Date"
  ELSE LET hours == DigitsValue(SubSeq(ts, 12, 13))
           h12 == IF hours % 12 = 0 THEN 12 ELSE hours % 12
       IN ToString(DigitsValue(SubSeq(ts, 6, 7))) \o "/"
            \o ToString(DigitsValue(SubSeq(ts, 9, 10))) \o "/" \o SubSeq(ts, 1, 4)
            \o ", " \o ToString(h12) \o SubSeq(ts, 14, 19)
            \o (IF hours < 12 THEN " AM" ELSE " PM")

\* The template with the index as its header.
ExportBlockFromZero(c, i) ==
  "#" \o ToString(i) \o "\nName: " \o c.name \o "\nEmail: " \o c.email
    \o "\nMessage: " \o c.message \o "\nDate: "
    \o (IF c.timestamp # "" THEN ToLocaleString(c.timestamp) ELSE "") \o "\n---"

\* The template of one record: i is the index of contacts.map, from 0.
ExportBlock(c, i) ==
  "#" \o ToString(i + 1) \o "\nName: " \o c.name \o "\nEmail: " \o c.email
    \o "\nMessage: " \o c.message \o "\nDate: "
    \o (IF c.timestamp # "" THEN ToLocaleString(c.timestamp) ELSE "") \o "\n---"

\* blocks.join(sep)
RECURSIVE Join(_, _)
Join(blocks, sep) ==
  IF Len(blocks) = 0 THEN ""
  ELSE IF Len(blocks) = 1 THEN blocks[1]
  ELSE blocks[1] \o sep \o Join(Tail(blocks), sep)

\* contacts.map((c, i) => `...`).join("\n\n")
exportAsText(list) ==
  Join([i \in 1..Len(list) |-> ExportBlock(list[i], i - 1)], "\n\n")

\* ---------------------------------------------------------- profile cache
PROFILE_CACHE_DURATION == 300000

\* assets/profile.json: absent, text that JSON.parse rejects, the JSON null
\* or a version of the document.
Documents == {"profile v1", "profile v2"}
NoDocument == "null"
ProfileFiles == {"missing", "unparsable", NoDocument} \cup Documents
StoredProfile == "profile v1"

\* A cache that is still served at the instant its five minutes are over.
CacheFreshInclusive(t) ==
  profileCache # NoDocument /\ (t - profileCacheTime) <= PROFILE_CACHE_DURATION

\* profileCache && (now - profileCacheTime) < PROFILE_CACHE_DURATION
CacheFresh(t) ==
  profileCache # NoDocument /\ (t - profileCacheTime) < PROFILE_CACHE_DURATION

\* ------------------------------------------------------ credential vault
\* this.encryptionKey, and a key the file may have been written under
\* instead (another ENCRYPTION_KEY).
encryptionKey == "key"
OtherKey == "other key"

\* A value of one of the fields user, password and service of the decrypted
\* object: missing, the empty string or a non-empty string.
Undefined == "<undefined>"
FieldValues == {Undefined, "", "x"}

\* What AES encrypted: text that is empty, that JSON.parse rejects, the JSON
\* null, or a JSON object with the three fields.
Plain(kind, user, password, service) ==
  [kind |-> kind, user |-> user, password |-> password, service |-> service]
Plains ==
  {Plain(k, Undefined, Undefined, Undefined) : k \in {"empty", "text", "null"}}
    \cup {Plain("object", u, p, v) : u \in FieldValues, p \in FieldValues,
                                     v \in FieldValues}

\* The `data` of the file: the plaintext under a key.  Under another key the
\* bytes are not the plaintext: their UTF-8 decoding is empty or fails.
Cipher(key, plain, garbage) == [key |-> key, plain |-> plain, garbage |-> garbage]
Ciphers ==
  {Cipher(k, p, g) : k \in {encryptionKey, OtherKey}, p \in Plains,
                     g \in {"empty", "malformed"}}

\* CryptoJS.SHA256(data + key).toString(): no two inputs share a digest.
SHA256(data, key) == <<data, key>>

\* assets/email-credentials.enc: absent, text that JSON.parse rejects, the
\* JSON null, or an object with data and checksum.
VaultFile(kind, data, checksum) == [kind |-> kind, data |-> data, checksum |-> checksum]
NoCipher == Cipher(OtherKey, Plain("empty", Undefined, Undefined, Undefined), "empty")
NoVaultFile == VaultFile("missing", NoCipher, SHA256(NoCipher, OtherKey))
VaultFiles ==
  {VaultFile(k, NoCipher, SHA256(NoCipher, OtherKey)) : k \in {"missing", "text", "null"}}
    \cup UNION {{VaultFile("object", d, c) :
                   c \in {SHA256(d, encryptionKey), SHA256(d, OtherKey),
                          SHA256(NoCipher, encryptionKey)}} : d \in Ciphers}

\* The file the deployment ships with.
StoredVaultFile ==
  LET d == Cipher(encryptionKey, Plain("object", "x", "x", "x"), "empty")
  IN VaultFile("object", d, SHA256(d, encryptionKey))

\* How a call ends: it returns a value (null or the credentials) or throws;
\* `decrypted` is whether AES.decrypt was called on the way.
Outcome(kind, value, decrypted) == [kind |-> kind, value |-> value, decrypted |-> decrypted]
NoCredentials == Plain("null", Undefined, Undefined, Undefined)
NotCalled == Outcome("none", NoCredentials, FALSE)

\* !v of a field
Falsy(v) == v \in {Undefined, ""}

\* The try block of getCredentials().
getCredentialsTry(file) ==
  IF file.kind = "missing" THEN Outcome("throw", NoCredentials, FALSE)
  ELSE IF file.kind = "text" THEN Outcome("throw", NoCredentials, FALSE)
  \* null.data
  ELSE IF file.kind = "null" THEN Outcome("throw", NoCredentials, FALSE)
  ELSE IF file.checksum # SHA256(file.data, encryptionKey)
    THEN Outcome("throw", NoCredentials, FALSE)
  \* AES.decrypt(...).toString(Utf8) under another key: the decoding fails
  ELSE IF file.data.key # encryptionKey /\ file.data.garbage = "malformed"
    THEN Outcome("throw", NoCredentials, TRUE)
  \* !decryptedData
  ELSE IF file.data.key # encryptionKey \/ file.data.plain.kind = "empty"
    THEN Outcome("throw", NoCredentials, TRUE)
  \* JSON.parse(decryptedData), then credentials.user of null
  ELSE IF file.data.plain.kind \in {"text", "null"}
    THEN Outcome("throw", NoCredentials, TRUE)
  ELSE IF \/ Falsy(file.data.plain.user)
          \/ Falsy(file.data.plain.password)
          \/ Falsy(file.data.plain.service)
    THEN Outcome("throw", NoCredentials, TRUE)
  ELSE Outcome("return", file.data.plain, TRUE)

\* A getCredentials() without its catch block.
getCredentialsUncaught(file) == getCredentialsTry(file)

\* getCredentials(): the catch block turns every throw into `return null`.
getCredentials(file) ==
  LET tried == getCredentialsTry(file)
  IN IF tried.kind = "throw" THEN Outcome("return", NoCredentials, tried.decrypted)
                             ELSE tried

\* Whether the vault yields the mail credentials.
Loaded(file) == getCredentials(file).value # NoCredentials

\* ------------------------------------------------------ notification email
\* initializeEmailTransporter: the transporter is created when the vault
\* yields credentials at startup, and stays null otherwise.
initializeEmailTransporter(loaded) == loaded

MAX_RETRIES == 2
RETRY_DELAY == 2000

\* One call chain of sendContactEmail for a submission: the retryCount of
\* the running call and when it was called, where the chain stands
\* ("sending": awaiting transporter.sendMail; "delay": awaiting the retry
\* timer, due at `due`; "sent" and "failed": returned), the sendMail calls
\* and the timers so far, and whether the handler had written the record
\* and had sent its response when it made the first call.
Mail(retryCount, calledAt, phase, due, attempts, delays, written, responded) ==
  [retryCount |-> retryCount, calledAt |-> calledAt, phase |-> phase, due |-> due,
   attempts |-> attempts, delays |-> delays, written |-> written,
   responded |-> responded]

\* The catch block at time t: a timer for the retry, or the final failure.
Catch(m, t) ==
  IF m.retryCount < MAX_RETRIES
    THEN [m EXCEPT !.phase = "delay", !.due = t + RETRY_DELAY, !.delays = @ + 1]
    ELSE [m EXCEPT !.phase = "failed"]

\* sendContactEmail(contactData, retryCount) called at time t, up to its
\* first await: the two throws of the try block, or the call of sendMail.
sendContactEmail(m, retryCount, t) ==
  LET call == [m EXCEPT !.retryCount = retryCount, !.calledAt = t] IN
  IF ~transporter \/ ~vault
    THEN Catch(call, t)
    ELSE [call EXCEPT !.phase = "sending", !.attempts = @ + 1]

Done == {"sent", "failed"}

\* --------------------------------------------------- sanitizing middleware
\* A JSON value as body-parser hands it over: its type, the text of a string
\* (or of a number, boolean or null literal), the items of an array or the
\* values of an object, and the keys of an object, in order.
Value(type, text, keys, items) ==
  [type |-> type, text |-> text, keys |-> keys, items |-> items]

Str(s) == Value("string", s, <<>>, <<>>)
Num(s) == Value("number", s, <<>>, <<>>)
Null == Value("null", "null", <<>>, <<>>)
Arr(items) == Value("array", "", <<>>, items)
Obj(keys, items) == Value("object", "", keys, items)

\* The positions of s, from `from` on, that hold one of the characters cs.
Positions(s, cs, from) == {i \in from..Len(s) : Char(s, i) \in cs}

\* The least of a non-empty set of numbers.
Least(S) == CHOOSE i \in S : \A j \in S : i <= j

\* key.replace(/[^a-zA-Z0-9_]/g, '')
KeyAlphabet == Letters \cup Digits \cup {"_"}

RECURSIVE SanitizeKey(_)
SanitizeKey(key) ==
  IF key = "" THEN ""
  ELSE (IF Char(key, 1) \in KeyAlphabet THEN Char(key, 1) ELSE "")
       \o SanitizeKey(SubSeq(key, 2, Len(key)))

\* mongo-sanitize removes the keys that begin with "$" from an object and
\* returns any other value as it is; the middleware hands it strings only.
mongoSanitize(v) == v

\* escapeHtml of the xss library: "<" and ">" become entities.
RECURSIVE escapeHtml(_)
escapeHtml(s) ==
  LET marks == Positions(s, {"<", ">"}, 1) IN
  IF marks = {} THEN s
  ELSE LET i == Least(marks) IN
       SubSeq(s, 1, i - 1) \o (IF Char(s, i) = "<" THEN "&lt;" ELSE "&gt;")
         \o escapeHtml(SubSeq(s, i + 1, Len(s)))

\* getTagName of the xss library, on tags without blanks: the text between
\* "<" and the last character, lower-cased, without a "/" at either end.
getTagName(tag) ==
  LET inner == ToLowerCase(SubSeq(tag, 2, Len(tag) - 1))
      head == IF Len(inner) > 0 /\ Char(inner, 1) = "/"
                THEN SubSeq(inner, 2, Len(inner)) ELSE inner
  IN IF Len(head) > 0 /\ Char(head, Len(head)) = "/"
       THEN SubSeq(head, 1, Len(head) - 1) ELSE head

isClosing(tag) == SubSeq(tag, 1, 2) = "</"

\* posStart of StripTagBody when no script tag is open.
NoPos == -1

\* parseTag with the onIgnoreTag of StripTagBody(['script']) over
\* onIgnoreTagStripAll, on texts without quotes and comments: `out` is the
\* text produced so far, posStart the place in it of the open script tag,
\* removeList the sections that remove() takes out at the end.
RECURSIVE parseTag(_, _, _, _)
parseTag(html, out, posStart, removeList) ==
  LET opens == Positions(html, {"<"}, 1) IN
  IF opens = {} \/ Least(opens) = Len(html)
    THEN [out |-> out \o escapeHtml(html), removeList |-> removeList]
  ELSE
    LET tagStart == Least(opens)
        marks == Positions(html, {"<", ">"}, tagStart + 1)
        \* the tag ends at its ">" or with the last character of the text
        stop == IF marks = {} THEN Len(html) ELSE Least(marks)
    IN
    IF marks # {} /\ Char(html, stop) = "<"
      THEN parseTag(SubSeq(html, stop, Len(html)),
                    out \o escapeHtml(SubSeq(html, 1, stop - 1)), posStart, removeList)
    ELSE
      LET before == out \o escapeHtml(SubSeq(html, 1, tagStart - 1))
          tag == SubSeq(html, tagStart, stop)
          rest == SubSeq(html, stop + 1, Len(html))
          position == Len(before)
      IN
      IF getTagName(tag) # "script"
        THEN parseTag(rest, before, posStart, removeList)
      ELSE IF isClosing(tag)
        THEN parseTag(rest, before \o "[/removed]", NoPos,
                      Append(removeList,
                             <<IF posStart # NoPos THEN posStart ELSE position,
                               position + Len("[/removed]")>>))
      \* `if (!posStart)`: an open tag at place 0 does not count as open
      ELSE parseTag(rest, before \o "[removed]",
                    IF posStart = NoPos \/ posStart = 0 THEN position ELSE posStart,
                    removeList)

\* remove() of StripTagBody: the text without the sections of removeList.
RECURSIVE remove(_, _, _)
remove(html, removeList, lastPos) ==
  IF removeList = <<>> THEN SubSeq(html, lastPos + 1, Len(html))
  ELSE SubSeq(html, lastPos + 1, Head(removeList)[1])
       \o remove(html, Tail(removeList), Head(removeList)[2])

\* xss(s, {whiteList: {}, stripIgnoreTag: true, stripIgnoreTagBody: ['script']})
xss(s) ==
  LET r == parseTag(s, "", NoPos, <<>>) IN remove(r.out, r.removeList, 0)

MAX_VALUE_LENGTH == 10000

\* The string branch of sanitizeInput.
SanitizeString(s) == Substring(xss(mongoSanitize(s)), MAX_VALUE_LENGTH)

\* sanitized[key] = value: a key already there keeps its place.
Put(o, key, value) ==
  IF \E i \in DOMAIN o.keys : o.keys[i] = key
    THEN LET i == CHOOSE j \in DOMAIN o.keys : o.keys[j] = key IN
         [o EXCEPT !.items[i] = value]
    ELSE [o EXCEPT !.keys = Append(@, key), !.items = Append(@, value)]

\* sanitizeInput(obj); typeof null is 'object'.
RECURSIVE sanitizeInput(_)
sanitizeInput(obj) ==
  LET RECURSIVE Entries(_, _)
      Entries(i, sanitized) ==
        IF i > Len(obj.keys) THEN sanitized
        ELSE LET value == obj.items[i] IN
             Entries(i + 1,
                     Put(sanitized, SanitizeKey(obj.keys[i]),
                         IF value.type = "string" THEN Str(SanitizeString(value.text))
                         ELSE IF value.type \in {"object", "array", "null"}
                           THEN sanitizeInput(value)
                         ELSE value))
  IN
  IF obj.type \notin {"object", "array"} THEN obj
  ELSE IF obj.type = "array"
    THEN Arr([i \in DOMAIN obj.items |-> sanitizeInput(obj.items[i])])
  ELSE Entries(1, Obj(<<>>, <<>>))

\* A request before the middleware (with body-parser's req.body) and after.
Request(raw, body, sanitized) == [raw |-> raw, body |-> body, sanitized |-> sanitized]

\* No request has reached the middleware.
NoRequest == Request(Null, Null, FALSE)

\* ------------------------------------------------------------------- Init
\* The state at app.listen: `file` is the vault file at startup, `request`
\* the request about to come in.
StartupWith(file, request) ==
  /\ now = 0
  /\ advances = 0
  /\ sessions = <<>>
  /\ issued = 0
  /\ \E fileExists \in BOOLEAN :
       credentials = initAdminCredentials(fileExists, ExistingCredentials)
  /\ generalHits = [ip \in IPs |-> NoHits]
  /\ authHits = [ip \in IPs |-> NoHits]
  /\ loginHits = [ip \in IPs |-> 0]
  /\ lastChange = NoChange
  /\ pending = {}
  /\ contacts = initContactsFile(FALSE, <<>>)
  /\ mailQueue = <<>>
  /\ contactsFile = TRUE
  /\ sent = NoData
  /\ resp = Response("none", 0, "", NoToken)
  /\ vaultFile = file
  /\ got = NotCalled
  /\ vault = Loaded(file)
  /\ transporter = initializeEmailTransporter(Loaded(file))
  /\ mails = <<>>
  /\ req = request
  /\ profileCache = NoDocument
  /\ profileCacheTime = 0
  /\ profileFile = StoredProfile
  /\ corrupt = "no"

\* The same with the vault file in place (loaded) or absent.
Startup(loaded, request) ==
  StartupWith(IF loaded THEN StoredVaultFile ELSE NoVaultFile, request)

\* The deployment with its mail credentials in place, before any request.
Init == Startup(TRUE, NoRequest)

\* ------------------------------------------------------------------ clock
AdvanceClockUpTo(d, max) ==
  /\ advances < max
  /\ now' = now + d
  /\ advances' = advances + 1
  /\ UNCHANGED <<sessions, issued, credentials, generalHits, authHits, loginHits,
                 lastChange, pending, contacts, mailQueue, mailVars, req, vaultVars,
                 profileVars, corrupt, contactsFile, sent, resp>>

AdvanceClock(d) == AdvanceClockUpTo(d, MaxAdvances)

\* ---------------------------------------------------- GET /api/profile
\* The route is registered before app.use(limiter) and names limiter: one
\* hit.  The response carries its source, the document and cachedAt (the
\* time of the load) or loadedAt (the time of the request).
GetProfile(ip, cap) ==
  /\ Budget(ip, cap)
  /\ generalHits' = [generalHits EXCEPT ![ip] = Hit(@)]
  /\ IF Limited(generalHits'[ip], GENERAL_MAX)
       THEN /\ resp' = Response("/api/profile", 429, GeneralMessage, NoToken)
            /\ sent' = NoData
            /\ UNCHANGED <<profileCache, profileCacheTime>>
     ELSE IF CacheFresh(now)
       THEN /\ resp' = Response("/api/profile", 200, "", NoToken)
            /\ sent' = Data("cache", <<profileCache, ToISOString(profileCacheTime)>>, 1)
            /\ UNCHANGED <<profileCache, profileCacheTime>>
     ELSE IF profileFile = "missing"
       THEN /\ resp' = Response("/api/profile", 404, "Profile data not found", NoToken)
            /\ sent' = NoData
            /\ UNCHANGED <<profileCache, profileCacheTime>>
     ELSE IF profileFile = "unparsable"
       THEN /\ resp' = Response("/api/profile", 500, "Failed to load profile data",
                                NoToken)
            /\ sent' = NoData
            /\ UNCHANGED <<profileCache, profileCacheTime>>
     ELSE /\ profileCache' = profileFile
          /\ profileCacheTime' = now
          /\ resp' = Response("/api/profile", 200, "", NoToken)
          /\ sent' = Data("file", <<profileFile, ToISOString(now)>>, 1)
  /\ UNCHANGED <<now, advances, sessions, issued, credentials, authHits, loginHits,
                 lastChange, pending, contacts, mailQueue, contactsFile, mailVars, req,
                 vaultVars, profileFile, corrupt>>

\* assets/profile.json is replaced, removed or damaged from outside.
ProfileFileChanged(file) ==
  /\ file # profileFile
  /\ profileFile' = file
  /\ UNCHANGED <<now, advances, sessions, issued, credentials, generalHits, authHits,
                 loginHits, lastChange, pending, contacts, mailQueue, contactsFile,
                 sent, resp, mailVars, req, vaultVars, profileCache, profileCacheTime,
                 corrupt>>

\* ------------------------------------------------- GET /api/auth-check
AuthCheck(ip, h, cap) ==
  /\ Budget(ip, cap)
  /\ generalHits' = [generalHits EXCEPT ![ip] = Hit(@)]
  /\ IF Limited(generalHits'[ip], GENERAL_MAX)
       THEN /\ resp' = Response("/api/auth-check", 429, GeneralMessage, NoToken)
            /\ UNCHANGED sessions
       ELSE LET r == requireAuth(sessions, h) IN
            /\ sessions' = r.sessions
            /\ resp' = Response("/api/auth-check", r.status, r.error, NoToken)
  /\ UNCHANGED <<now, advances, issued, credentials, authHits, loginHits, lastChange,
                 pending, contacts, mailQueue, mailVars, req, vaultVars, profileVars,
                 corrupt, contactsFile>>
  /\ sent' = NoData

\* ------------------------------------------------------- GET /admin/...
\* The routes under /admin behind the gate alone, without requireAuth.
AdminRequestGateOnly(ip, h, url, cap) ==
  /\ Budget(ip, cap)
  /\ generalHits' = [generalHits EXCEPT ![ip] = Hit(@)]
  /\ IF Limited(generalHits'[ip], GENERAL_MAX)
       THEN /\ resp' = Response("/admin" \o url.path, 429, GeneralMessage, NoToken)
            /\ sent' = NoData
            /\ UNCHANGED sessions
       ELSE LET g == adminGate(sessions, h, url) IN
            /\ sessions' = g.sessions
            /\ IF g.verdict = "redirect"
                 THEN /\ resp' = Response("/admin" \o url.path, 302, "/login", NoToken)
                      /\ sent' = NoData
               ELSE IF url.path \notin AdminRoutes
                 THEN /\ resp' = Response("/admin" \o url.path, 404, "Route not found",
                                          NoToken)
                      /\ sent' = NoData
               ELSE /\ resp' = Response("/admin" \o url.path, 200, "", NoToken)
                    /\ sent' = Data("list", contacts, Len(contacts))
  /\ UNCHANGED <<now, advances, issued, credentials, authHits, loginHits, lastChange,
                 pending, contacts, mailQueue, mailVars, req, vaultVars, profileVars,
                 corrupt, contactsFile>>

AdminRequest(ip, h, url, cap) ==
  /\ Budget(ip, cap)
  /\ generalHits' = [generalHits EXCEPT ![ip] = Hit(@)]
  /\ IF Limited(generalHits'[ip], GENERAL_MAX)
       THEN /\ resp' = Response("/admin" \o url.path, 429, GeneralMessage, NoToken)
            /\ sent' = NoData
            /\ UNCHANGED sessions
       ELSE LET g == adminGate(sessions, h, url) IN
            IF g.verdict = "redirect"
              THEN /\ sessions' = g.sessions
                   /\ resp' = Response("/admin" \o url.path, 302, "/login",
                                       NoToken)
                   /\ sent' = NoData
            ELSE IF url.path \notin AdminRoutes
              THEN /\ sessions' = g.sessions
                   /\ resp' = Response("/admin" \o url.path, 404, "Route not found",
                                       NoToken)
                   /\ sent' = NoData
            ELSE LET r == requireAuth(g.sessions, h) IN
                 /\ sessions' = r.sessions
                 /\ IF r.status # 200
                      THEN /\ resp' = Response("/admin" \o url.path, r.status, r.error,
                                               NoToken)
                           /\ sent' = NoData
                    \* JSON.parse throws, or .map of a value that is not an array
                    ELSE IF contactsFile /\ corrupt \in {"text", "object"}
                      THEN /\ resp' = Response("/admin" \o url.path, 500,
                                               IF url.path = "/contacts/download-txt"
                                                 THEN "Failed to download contacts as text"
                                                 ELSE "Error loading contacts",
                                               NoToken)
                           /\ sent' = NoData
                    ELSE IF contactsFile /\ url.path = "/contacts/download-txt"
                      THEN /\ resp' = Response("/admin" \o url.path, 200, "", NoToken)
                           /\ sent' = Data("text", <<exportAsText(contacts)>>,
                                           Len(contacts))
                    ELSE IF contactsFile
                      THEN /\ resp' = Response("/admin" \o url.path, 200, "", NoToken)
                           /\ sent' = Data("list", contacts, Len(contacts))
                    ELSE IF url.path = "/contacts/download-txt"
                      THEN /\ resp' = Response("/admin" \o url.path, 404,
                                               "Contacts file not found", NoToken)
                           /\ sent' = NoData
                    \* GET /admin/contacts sends nothing when the file is missing
                    ELSE /\ resp' = Awaiting("/admin" \o url.path)
                         /\ sent' = NoData
  /\ UNCHANGED <<now, advances, issued, credentials, authHits, loginHits, lastChange,
                 pending, contacts, mailQueue, mailVars, req, vaultVars, profileVars,
                 corrupt, contactsFile>>

\* ------------------------------------------------------ authLimiter store
\* A limiter of the logins alone: change-password does not count.
AuthHitLoginsOnly(ip, isLogin) ==
  /\ authHits' = IF isLogin THEN [authHits EXCEPT ![ip] = Hit(@)] ELSE authHits
  /\ loginHits' = [loginHits EXCEPT ![ip] =
                     (IF authHits[ip].resetTime <= now THEN 0 ELSE @)
                     + (IF isLogin THEN 1 ELSE 0)]

\* One hit of ip on authLimiter; loginHits follows the logins among the hits
\* of the window.
AuthHit(ip, isLogin) ==
  /\ authHits' = [authHits EXCEPT ![ip] = Hit(@)]
  /\ loginHits' = [loginHits EXCEPT ![ip] =
                     (IF authHits[ip].resetTime <= now THEN 0 ELSE @)
                     + (IF isLogin THEN 1 ELSE 0)]

\* A request suspended at an await.
Suspended(kind, ip, token, username, password, newPassword, cred) ==
  [kind |-> kind, ip |-> ip, token |-> token, username |-> username,
   password |-> password, newPassword |-> newPassword, cred |-> cred]

\* ------------------------------------------------------- POST /api/login
LoginValid(u, p) == u.ok /\ p.len >= 1 /\ p.len <= 100

\* A username test that lets every username through.
UsernameMatchesAny(u, cred) == TRUE

\* username !== credentials.username, on the trimmed username
UsernameMatches(u, cred) == u.trimmed = cred.username

\* Up to `await bcrypt.compare(...)`.
LoginStart(ip, u, p, cap) ==
  /\ Budget(ip, cap)
  /\ generalHits' = [generalHits EXCEPT ![ip] = Hit(@)]
  /\ IF Limited(generalHits'[ip], GENERAL_MAX)
       THEN /\ resp' = Response("/api/login", 429, GeneralMessage, NoToken)
            /\ UNCHANGED <<authHits, loginHits, pending>>
       ELSE /\ AuthHit(ip, TRUE)
            /\ IF Limited(authHits'[ip], AUTH_MAX)
                 THEN /\ resp' = Response("/api/login", 429, AuthMessage, NoToken)
                      /\ UNCHANGED pending
               ELSE IF ~LoginValid(u, p)
                 THEN /\ resp' = Response("/api/login", 400, "Validation failed", NoToken)
                      /\ UNCHANGED pending
               ELSE IF ~UsernameMatches(u, credentials)
                 THEN /\ resp' = Response("/api/login", 401, "Invalid credentials", NoToken)
                      /\ UNCHANGED pending
               ELSE LET s == Suspended("login", ip, NoToken, u.trimmed, p, PwEmpty,
                                       credentials) IN
                    /\ Cardinality(pending) < MaxInflight /\ s \notin pending
                    /\ pending' = pending \cup {s}
                    /\ resp' = Awaiting("/api/login")
  /\ UNCHANGED <<now, advances, sessions, issued, credentials, lastChange, contacts,
                 mailQueue, mailVars, req, vaultVars, profileVars, corrupt,
                 contactsFile>>
  /\ sent' = NoData

\* sessionId = Math.random().toString(36).substring(2) + Date.now().toString(36):
\* a token no earlier login was given.
NewSessionId == issued + 1

\* A login whose session takes the place of the sessions there are.
LoginFinishSingleSession(r) ==
  /\ r \in pending /\ r.kind = "login"
  /\ pending' = pending \ {r}
  /\ IF ~BcryptCompare(r.password, r.cred.passwordHash)
       THEN /\ resp' = Response("/api/login", 401, "Invalid credentials", NoToken)
            /\ UNCHANGED <<sessions, issued>>
       ELSE /\ issued < MaxTokens
            /\ issued' = issued + 1
            /\ sessions' = (NewSessionId :> [username |-> r.cred.username,
                                             createdAt |-> now,
                                             expiresAt |-> now + SESSION_TTL])
            /\ resp' = Response("/api/login", 200, "", NewSessionId)
  /\ UNCHANGED <<now, advances, credentials, generalHits, authHits, loginHits,
                 lastChange, contacts, mailQueue, mailVars, req, vaultVars,
                 profileVars, corrupt, contactsFile>>
  /\ sent' = NoData

\* A login that says that it was the password that was wrong.
LoginFinishNamingPassword(r) ==
  /\ r \in pending /\ r.kind = "login"
  /\ pending' = pending \ {r}
  /\ IF ~BcryptCompare(r.password, r.cred.passwordHash)
       THEN /\ resp' = Response("/api/login", 401, "Invalid password", NoToken)
            /\ UNCHANGED <<sessions, issued>>
       ELSE /\ issued < MaxTokens
            /\ issued' = issued + 1
            /\ sessions' = (NewSessionId :> [username |-> r.cred.username,
                                             createdAt |-> now,
                                             expiresAt |-> now + SESSION_TTL]) @@ sessions
            /\ resp' = Response("/api/login", 200, "", NewSessionId)
  /\ UNCHANGED <<now, advances, credentials, generalHits, authHits, loginHits,
                 lastChange, contacts, mailQueue, mailVars, req, vaultVars, profileVars,
                 corrupt, contactsFile>>
  /\ sent' = NoData

\* From the return of bcrypt.compare.
LoginFinish(r) ==
  /\ r \in pending /\ r.kind = "login"
  /\ pending' = pending \ {r}
  /\ IF ~BcryptCompare(r.password, r.cred.passwordHash)
       THEN /\ resp' = Response("/api/login", 401, "Invalid credentials", NoToken)
            /\ UNCHANGED <<sessions, issued>>
       ELSE /\ issued < MaxTokens
            /\ issued' = issued + 1
            /\ sessions' = (NewSessionId :> [username |-> r.cred.username,
                                             createdAt |-> now,
                                             expiresAt |-> now + SESSION_TTL]) @@ sessions
            /\ resp' = Response("/api/login", 200, "", NewSessionId)
  /\ UNCHANGED <<now, advances, credentials, generalHits, authHits, loginHits,
                 lastChange, contacts, mailQueue, mailVars, req, vaultVars, profileVars,
                 corrupt, contactsFile>>
  /\ sent' = NoData

\* ------------------------------------------------------ POST /api/logout
LogoutToken(h) == IF h.authorization # NoToken THEN h.authorization ELSE h.xSessionId

\* A logout that empties the registry.
LogoutEveryone(ip, h, cap) ==
  /\ Budget(ip, cap)
  /\ generalHits' = [generalHits EXCEPT ![ip] = Hit(@)]
  /\ IF Limited(generalHits'[ip], GENERAL_MAX)
       THEN /\ resp' = Response("/api/logout", 429, GeneralMessage, NoToken)
            /\ UNCHANGED sessions
       ELSE LET sessionId == LogoutToken(h) IN
            /\ sessions' = IF sessionId # NoToken /\ sessionId \in DOMAIN sessions
                             THEN <<>>
                             ELSE sessions
            /\ resp' = Response("/api/logout", 200, "", NoToken)
  /\ UNCHANGED <<now, advances, issued, credentials, authHits, loginHits, lastChange,
                 pending, contacts, mailQueue, mailVars, req, vaultVars, profileVars,
                 corrupt, contactsFile>>
  /\ sent' = NoData

Logout(ip, h, cap) ==
  /\ Budget(ip, cap)
  /\ generalHits' = [generalHits EXCEPT ![ip] = Hit(@)]
  /\ IF Limited(generalHits'[ip], GENERAL_MAX)
       THEN /\ resp' = Response("/api/logout", 429, GeneralMessage, NoToken)
            /\ UNCHANGED sessions
       ELSE LET sessionId == LogoutToken(h) IN
            /\ sessions' = IF sessionId # NoToken /\ sessionId \in DOMAIN sessions
                             THEN Remove(sessions, sessionId)
                             ELSE sessions
            /\ resp' = Response("/api/logout", 200, "", NoToken)
  /\ UNCHANGED <<now, advances, issued, credentials, authHits, loginHits, lastChange,
                 pending, contacts, mailQueue, mailVars, req, vaultVars, profileVars,
                 corrupt, contactsFile>>
  /\ sent' = NoData

\* --------------------------------------------- POST /api/change-password
ChangePasswordValid(cur, new) ==
  /\ cur.len >= 1 /\ cur.len <= 100
  /\ new.len >= 6 /\ new.len <= 100
  /\ new.letter /\ new.digit

\* requireAuth, authLimiter, the validators and the handler up to the first
\* `await bcrypt.compare(...)`, with up to `inflight` requests suspended.
ChangePasswordStartUpTo(ip, h, cur, new, cap, inflight) ==
  /\ Budget(ip, cap)
  /\ generalHits' = [generalHits EXCEPT ![ip] = Hit(@)]
  /\ IF Limited(generalHits'[ip], GENERAL_MAX)
       THEN /\ resp' = Response("/api/change-password", 429, GeneralMessage, NoToken)
            /\ UNCHANGED <<sessions, authHits, loginHits, pending>>
       ELSE LET a == requireAuth(sessions, h) IN
            /\ sessions' = a.sessions
            /\ IF a.status # 200
                 THEN /\ resp' = Response("/api/change-password", a.status, a.error,
                                          NoToken)
                      /\ UNCHANGED <<authHits, loginHits, pending>>
                 ELSE /\ AuthHit(ip, FALSE)
                      /\ IF Limited(authHits'[ip], AUTH_MAX)
                           THEN /\ resp' = Response("/api/change-password", 429,
                                                    AuthMessage, NoToken)
                                /\ UNCHANGED pending
                         ELSE IF ~ChangePasswordValid(cur, new)
                           THEN /\ resp' = Response("/api/change-password", 400,
                                                    "Validation failed", NoToken)
                                /\ UNCHANGED pending
                         ELSE LET s == Suspended("change-password", ip,
                                                 RequireAuthToken(h), "", cur, new,
                                                 credentials) IN
                              /\ Cardinality(pending) < inflight /\ s \notin pending
                              /\ pending' = pending \cup {s}
                              /\ resp' = Awaiting("/api/change-password")
  /\ UNCHANGED <<now, advances, issued, credentials, lastChange, contacts, mailQueue,
                 mailVars, req, vaultVars, profileVars, corrupt, contactsFile>>
  /\ sent' = NoData

ChangePasswordStart(ip, h, cur, new, cap) ==
  ChangePasswordStartUpTo(ip, h, cur, new, cap, MaxInflight)

\* The record written with the hash it was read with.
UpdatedCredentialsKeepingHash(r) ==
  [r.cred EXCEPT
     !.updatedAt = now,
     !.updatedBy = IF r.token \in DOMAIN sessions
                     THEN sessions[r.token].username ELSE "admin",
     !.updatedFrom = r.ip]

\* The credentials record change-password writes: the record it read, with a
\* new hash and stamps.
UpdatedCredentials(r) ==
  [r.cred EXCEPT
     !.passwordHash = BcryptHash(r.newPassword, BCRYPT_COST),
     !.updatedAt = now,
     !.updatedBy = IF r.token \in DOMAIN sessions
                     THEN sessions[r.token].username ELSE "admin",
     !.updatedFrom = r.ip]

\* isSamePassword that is never true.
SamePasswordNever(r) == FALSE

\* isCurrentPasswordValid = await bcrypt.compare(currentPassword, credentials.passwordHash)
CurrentPasswordValid(r) == BcryptCompare(r.password, r.cred.passwordHash)

\* isSamePassword = await bcrypt.compare(newPassword, credentials.passwordHash)
SamePassword(r) == BcryptCompare(r.newPassword, r.cred.passwordHash)

\* The three awaits (compare, compare, hash) read and write nothing shared, so
\* they are one step, up to the write of the file and the response.
ChangePasswordFinish(r) ==
  /\ r \in pending /\ r.kind = "change-password"
  /\ pending' = pending \ {r}
  /\ IF ~CurrentPasswordValid(r)
       THEN /\ resp' = Response("/api/change-password", 401,
                                "Current password is incorrect", NoToken)
            /\ UNCHANGED <<credentials, lastChange>>
     ELSE IF SamePassword(r)
       THEN /\ resp' = Response("/api/change-password", 400,
                                "New password must be different from current password",
                                NoToken)
            /\ UNCHANGED <<credentials, lastChange>>
     ELSE /\ credentials' = UpdatedCredentials(r)
          /\ lastChange' = [old |-> r.password, new |-> r.newPassword]
          /\ resp' = Response("/api/change-password", 200, "", NoToken)
  /\ UNCHANGED <<now, advances, sessions, issued, generalHits, authHits, loginHits,
                 contacts, mailQueue, mailVars, req, vaultVars, profileVars, corrupt,
                 contactsFile>>
  /\ sent' = NoData

\* ------------------------------------------------------------ GET /health
Health(ip, cap) ==
  /\ Budget(ip, cap)
  /\ generalHits' = [generalHits EXCEPT ![ip] = Hit(@)]
  /\ resp' = IF Limited(generalHits'[ip], GENERAL_MAX)
               THEN Response("/health", 429, GeneralMessage, NoToken)
               ELSE Response("/health", 200, "", NoToken)
  /\ UNCHANGED <<now, advances, sessions, issued, credentials, authHits, loginHits,
                 lastChange, pending, contacts, mailQueue, mailVars, req, vaultVars,
                 profileVars, corrupt, contactsFile>>
  /\ sent' = NoData

\* ------------------------------------------------- POST /api/save-contact
\* A request body as the route receives it, with the User-Agent header of
\* the request ("" when a field or the header is missing).
Body(name, email, message, timestamp, userAgent) ==
  [name |-> name, email |-> email, message |-> message,
   timestamp |-> timestamp, userAgent |-> userAgent]

\* Validators that let every body through.
ContactValidAlways(b) == TRUE

\* The three validators of the route, on the fields as they sanitize them.
ContactValid(b) ==
  /\ Len(Trim(b.name)) \in 1..100
  /\ NameChars(Trim(b.name))
  /\ IsEmail(Trim(b.email))
  /\ Len(Trim(b.message)) \in 1..1000

ContactBodies ==
  { Body("Jane Doe", "JANE@Example.com", "Hi there", "", "curl/8.0"),
    Body("Jane Doe", "JANE@Example.com", "", "", "curl/8.0") }

NewContact(ip, b) ==
  [id |-> now,
   name |-> Substring(Trim(b.name), 100),
   email |-> Substring(ToLowerCase(NormalizeEmail(Trim(b.email))), 100),
   message |-> Substring(Trim(b.message), 1000),
   timestamp |-> IF b.timestamp # "" THEN b.timestamp ELSE ToISOString(now),
   ip |-> ip,
   userAgent |-> IF b.userAgent # "" THEN Substring(b.userAgent, 500) ELSE "Unknown"]

\* A handler that reads nothing of the file.
StoredContactsEmpty == <<>>

\* The list a handler reads: the file's content, [] when there is no file,
\* when the file is empty (JSON.parse(data || "[]")) and, in save-contact,
\* when JSON.parse throws.
StoredContacts == IF contactsFile /\ corrupt = "no" THEN contacts ELSE <<>>

\* The route is registered after app.use(limiter) and names limiter again:
\* the same store is hit by both.  writeOk is whether fs.writeFileSync
\* returns (it throws before it has changed the file otherwise).
SaveContactIO(ip, b, cap, writeOk) ==
  /\ Budget(ip, cap)
  /\ LET first == Hit(generalHits[ip]) IN
     IF Limited(first, GENERAL_MAX)
       THEN /\ generalHits' = [generalHits EXCEPT ![ip] = first]
            /\ resp' = Response("/api/save-contact", 429, GeneralMessage, NoToken)
            /\ sent' = NoData
            /\ UNCHANGED <<contacts, mailQueue, mails, contactsFile, corrupt>>
       ELSE /\ generalHits' = [generalHits EXCEPT ![ip] = [first EXCEPT !.count = @ + 1]]
            /\ IF Limited(generalHits'[ip], GENERAL_MAX)
                 THEN /\ resp' = Response("/api/save-contact", 429, GeneralMessage, NoToken)
                      /\ sent' = NoData
                      /\ UNCHANGED <<contacts, mailQueue, mails, contactsFile, corrupt>>
               ELSE IF ~ContactValid(b)
                 THEN /\ resp' = Response("/api/save-contact", 400, "Validation failed",
                                          NoToken)
                      /\ sent' = NoData
                      /\ UNCHANGED <<contacts, mailQueue, mails, contactsFile, corrupt>>
               \* contacts.push of a value that is not an array throws
               ELSE IF ~writeOk \/ (contactsFile /\ corrupt = "object")
                 THEN /\ resp' = Response("/api/save-contact", 500,
                                          "Failed to save contact", NoToken)
                      /\ sent' = NoData
                      /\ UNCHANGED <<contacts, mailQueue, mails, contactsFile, corrupt>>
               ELSE /\ Len(contacts) < MaxContacts
                    /\ contacts' = Append(StoredContacts, NewContact(ip, b))
                    /\ contactsFile' = TRUE
                    /\ corrupt' = "no"
                    /\ mailQueue' = Append(mailQueue, NewContact(ip, b).id)
                    \* sendContactEmail(newContact) is called after the write
                    \* and before res.json
                    /\ mails' = Append(mails,
                                       sendContactEmail(Mail(0, now, "called", 0, 0, 0,
                                                             TRUE, FALSE), 0, now))
                    /\ resp' = Response("/api/save-contact", 200, "", NoToken)
                    /\ sent' = Data("id", <<>>, NewContact(ip, b).id)
  /\ UNCHANGED <<now, advances, sessions, issued, credentials, authHits, loginHits,
                 lastChange, pending, vault, transporter, req, vaultVars,
                 profileVars>>

\* A submission whose write succeeds.
SaveContact(ip, b, cap) == SaveContactIO(ip, b, cap, TRUE)

\* A sendMail whose final failure takes the record out of the store.
SendMailSettlesRollingBack(i, ok) ==
  /\ i \in DOMAIN mails
  /\ mails[i].phase = "sending"
  /\ mails' = [mails EXCEPT ![i] = IF ok THEN [@ EXCEPT !.phase = "sent"]
                                         ELSE Catch(@, now)]
  /\ contacts' = IF mails'[i].phase = "failed"
                   THEN SelectSeq(contacts, LAMBDA c : c.id # mailQueue[i])
                   ELSE contacts
  /\ UNCHANGED <<now, advances, sessions, issued, credentials, generalHits, authHits,
                 loginHits, lastChange, pending, mailQueue, contactsFile,
                 sent, resp, vault, transporter, req, vaultVars,
                 profileVars, corrupt>>

\* transporter.sendMail of the i-th call chain resolves (ok) or rejects.
SendMailSettles(i, ok) ==
  /\ i \in DOMAIN mails
  /\ mails[i].phase = "sending"
  /\ mails' = [mails EXCEPT ![i] = IF ok THEN [@ EXCEPT !.phase = "sent"]
                                         ELSE Catch(@, now)]
  /\ UNCHANGED <<now, advances, sessions, issued, credentials, generalHits, authHits,
                 loginHits, lastChange, pending, contacts, mailQueue, contactsFile,
                 sent, resp, vault, transporter, req, vaultVars,
                 profileVars, corrupt>>

\* A timer that fires at once.
RetryTimerAtOnce(i) ==
  /\ i \in DOMAIN mails
  /\ mails[i].phase = "delay"
  /\ now' = now
  /\ mails' = [mails EXCEPT ![i] = sendContactEmail(@, @.retryCount + 1, now')]
  /\ UNCHANGED <<advances, sessions, issued, credentials, generalHits, authHits,
                 loginHits, lastChange, pending, contacts, mailQueue, contactsFile,
                 sent, resp, vault, transporter, req, vaultVars,
                 profileVars, corrupt>>

\* The retry timer of the i-th call chain fires, at its due time or later,
\* and sendContactEmail is called again.
RetryTimer(i) ==
  /\ i \in DOMAIN mails
  /\ mails[i].phase = "delay"
  /\ now' = IF now < mails[i].due THEN mails[i].due ELSE now
  /\ mails' = [mails EXCEPT ![i] = sendContactEmail(@, @.retryCount + 1, now')]
  /\ UNCHANGED <<advances, sessions, issued, credentials, generalHits, authHits,
                 loginHits, lastChange, pending, contacts, mailQueue, contactsFile,
                 sent, resp, vault, transporter, req, vaultVars,
                 profileVars, corrupt>>

\* A listing that returns the latest record first.
GetContactsLatestFirst(ip, cap) ==
  /\ Budget(ip, cap)
  /\ generalHits' = [generalHits EXCEPT ![ip] = Hit(@)]
  /\ resp' = Response("/api/contacts", 200, "", NoToken)
  /\ sent' = Data("list",
                   [i \in 1..Len(StoredContacts) |->
                      StoredContacts[Len(StoredContacts) + 1 - i]],
                   Len(StoredContacts))
  /\ UNCHANGED <<now, advances, sessions, issued, credentials, authHits, loginHits,
                 lastChange, pending, contacts, mailQueue, mailVars, req, vaultVars,
                 profileVars, corrupt, contactsFile>>

\* --------------------------------------------------- GET /api/contacts
GetContacts(ip, cap) ==
  /\ Budget(ip, cap)
  /\ generalHits' = [generalHits EXCEPT ![ip] = Hit(@)]
  /\ IF Limited(generalHits'[ip], GENERAL_MAX)
       THEN /\ resp' = Response("/api/contacts", 429, GeneralMessage, NoToken)
            /\ sent' = NoData
       ELSE IF contactsFile /\ corrupt = "text"
         THEN /\ resp' = Response("/api/contacts", 500, "Failed to read contacts",
                                  NoToken)
              /\ sent' = NoData
       \* res.json of whatever JSON.parse returned
       ELSE IF contactsFile /\ corrupt = "object"
         THEN /\ resp' = Response("/api/contacts", 200, "", NoToken)
              /\ sent' = Data("object", <<>>, 0)
       ELSE /\ resp' = Response("/api/contacts", 200, "", NoToken)
            /\ sent' = Data("list", StoredContacts, Len(StoredContacts))
  /\ UNCHANGED <<now, advances, sessions, issued, credentials, authHits, loginHits,
                 lastChange, pending, contacts, mailQueue, mailVars, req, vaultVars,
                 profileVars, corrupt, contactsFile>>

\* ------------------------------------------------ GET /download-contacts
DownloadContacts(ip, h, cap) ==
  /\ Budget(ip, cap)
  /\ generalHits' = [generalHits EXCEPT ![ip] = Hit(@)]
  /\ IF Limited(generalHits'[ip], GENERAL_MAX)
       THEN /\ resp' = Response("/download-contacts", 429, GeneralMessage, NoToken)
            /\ sent' = NoData
            /\ UNCHANGED sessions
       ELSE LET r == requireAuth(sessions, h) IN
            /\ sessions' = r.sessions
            /\ IF r.status # 200
                 THEN /\ resp' = Response("/download-contacts", r.status, r.error, NoToken)
                      /\ sent' = NoData
               ELSE IF ~contactsFile
                 THEN /\ resp' = Response("/download-contacts", 404,
                                          "Contacts file not found", NoToken)
                      /\ sent' = NoData
               \* res.download sends the file as it is
               ELSE /\ resp' = Response("/download-contacts", 200, "", NoToken)
                    /\ sent' = IF corrupt = "no"
                                 THEN Data("list", contacts, Len(contacts))
                                 ELSE Data(corrupt, <<>>, 0)
  /\ UNCHANGED <<now, advances, issued, credentials, authHits, loginHits, lastChange,
                 pending, contacts, mailQueue, mailVars, req, vaultVars, profileVars,
                 corrupt, contactsFile>>

\* delete-all without requireAuth in front of it.
DeleteAllUnguarded(ip, h, cap) ==
  /\ Budget(ip, cap)
  /\ generalHits' = [generalHits EXCEPT ![ip] = Hit(@)]
  /\ contactsFile
  /\ contacts' = <<>>
  /\ resp' = Response("/api/contacts/delete-all", 200, "", NoToken)
  /\ sent' = Data("deleted", <<>>, Len(contacts))
  /\ UNCHANGED <<now, advances, sessions, issued, credentials, authHits, loginHits,
                 lastChange, pending, mailQueue, mailVars, req, vaultVars, profileVars,
                 corrupt, contactsFile>>

\* delete-all that counts the records after it has cleared the store.
DeleteAllCountingAfter(ip, h, cap) ==
  /\ Budget(ip, cap)
  /\ generalHits' = [generalHits EXCEPT ![ip] = Hit(@)]
  /\ requireAuth(sessions, h).status = 200
  /\ contactsFile
  /\ sessions' = requireAuth(sessions, h).sessions
  /\ contacts' = <<>>
  /\ resp' = Response("/api/contacts/delete-all", 200, "", NoToken)
  /\ sent' = Data("deleted", <<>>, Len(contacts'))
  /\ UNCHANGED <<now, advances, issued, credentials, authHits, loginHits, lastChange,
                 pending, mailQueue, mailVars, req, vaultVars, profileVars, corrupt,
                 contactsFile>>

\* ----------------------------------------- DELETE /api/contacts/delete-all
DeleteAll(ip, h, cap) ==
  /\ Budget(ip, cap)
  /\ generalHits' = [generalHits EXCEPT ![ip] = Hit(@)]
  /\ IF Limited(generalHits'[ip], GENERAL_MAX)
       THEN /\ resp' = Response("/api/contacts/delete-all", 429, GeneralMessage, NoToken)
            /\ sent' = NoData
            /\ UNCHANGED <<sessions, contacts, corrupt>>
       ELSE LET r == requireAuth(sessions, h) IN
            /\ sessions' = r.sessions
            /\ IF r.status # 200
                 THEN /\ resp' = Response("/api/contacts/delete-all", r.status, r.error,
                                          NoToken)
                      /\ sent' = NoData
                      /\ UNCHANGED <<contacts, corrupt>>
               ELSE IF ~contactsFile
                 THEN /\ resp' = Response("/api/contacts/delete-all", 404,
                                          "Contacts file not found", NoToken)
                      /\ sent' = NoData
                      /\ UNCHANGED <<contacts, corrupt>>
               ELSE IF corrupt = "text"
                 THEN /\ resp' = Response("/api/contacts/delete-all", 500,
                                          "Failed to delete all contacts", NoToken)
                      /\ sent' = NoData
                      /\ UNCHANGED <<contacts, corrupt>>
               \* whatever JSON.parse returned, [] is written
               ELSE /\ contacts' = <<>>
                    /\ corrupt' = "no"
                    /\ resp' = Response("/api/contacts/delete-all", 200, "", NoToken)
                    /\ sent' = Data("deleted", <<>>, Len(contacts))
  /\ UNCHANGED <<now, advances, issued, credentials, authHits, loginHits, lastChange,
                 pending, mailQueue, mailVars, req, vaultVars, profileVars,
                 contactsFile>>

\* ---------------------------------------------- DELETE /api/contacts/:id
DeleteContact(ip, h, id, cap) ==
  /\ Budget(ip, cap)
  /\ generalHits' = [generalHits EXCEPT ![ip] = Hit(@)]
  /\ IF Limited(generalHits'[ip], GENERAL_MAX)
       THEN /\ resp' = Response("/api/contacts/:id", 429, GeneralMessage, NoToken)
            /\ sent' = NoData
            /\ UNCHANGED <<sessions, contacts>>
       ELSE LET r == requireAuth(sessions, h)
                contactId == ParseInt(id)
                kept == FilterOut(contacts, contactId)
            IN
            /\ sessions' = r.sessions
            /\ IF r.status # 200
                 THEN /\ resp' = Response("/api/contacts/:id", r.status, r.error, NoToken)
                      /\ sent' = NoData
                      /\ UNCHANGED contacts
               ELSE IF ~contactsFile
                 THEN /\ resp' = Response("/api/contacts/:id", 404,
                                          "Contacts file not found", NoToken)
                      /\ sent' = NoData
                      /\ UNCHANGED contacts
               \* JSON.parse throws, or .filter of a value that is not an array
               ELSE IF corrupt \in {"text", "object"}
                 THEN /\ resp' = Response("/api/contacts/:id", 500,
                                          "Failed to delete contact", NoToken)
                      /\ sent' = NoData
                      /\ UNCHANGED contacts
               ELSE IF Len(kept) = Len(contacts)
                 THEN /\ resp' = Response("/api/contacts/:id", 404, "Contact not found",
                                          NoToken)
                      /\ sent' = NoData
                      /\ UNCHANGED contacts
               ELSE /\ contacts' = kept
                    /\ resp' = Response("/api/contacts/:id", 200, "", NoToken)
                    /\ sent' = Data("remaining", <<>>, Len(kept))
  /\ UNCHANGED <<now, advances, issued, credentials, authHits, loginHits, lastChange,
                 pending, mailQueue, mailVars, req, vaultVars, profileVars, corrupt,
                 contactsFile>>

\* ------------------------------------------------------------ environment
\* contacts.json is removed from outside the process while it runs.
ContactsFileRemoved ==
  /\ contactsFile
  /\ contactsFile' = FALSE
  /\ contacts' = <<>>
  /\ corrupt' = "no"
  /\ UNCHANGED <<now, advances, sessions, issued, credentials, generalHits, authHits,
                 loginHits, lastChange, pending, mailQueue, mailVars, req, vaultVars,
                 profileVars, sent, resp>>

\* contacts.json is overwritten from outside the process, or a write of it
\* was cut short: it holds no text, text that is not JSON, or JSON that is
\* not an array.
CorruptKinds == {"empty", "text", "object"}

ContactsFileCorrupted(kind) ==
  /\ contactsFile
  /\ corrupt = "no"
  /\ corrupt' = kind
  /\ contacts' = <<>>
  /\ UNCHANGED <<now, advances, sessions, issued, credentials, generalHits, authHits,
                 loginHits, lastChange, pending, mailQueue, mailVars, req, vaultVars,
                 profileVars, contactsFile, sent, resp>>

\* ------------------------------------------------- sanitizing middleware
\* The middleware replaces req.body by sanitizeInput(req.body) (and does the
\* same to req.query and req.params).
Sanitize ==
  /\ ~req.sanitized
  /\ req' = Request(req.raw, sanitizeInput(req.raw), TRUE)
  /\ UNCHANGED <<now, advances, sessions, issued, credentials, generalHits, authHits,
                 loginHits, lastChange, pending, contacts, mailQueue, contactsFile,
                 sent, resp, mailVars, vaultVars, profileVars, corrupt>>

\* The encrypted credentials file is removed while the server
\* runs: getCredentials() returns null from then on.
VaultLost ==
  /\ vault
  /\ vault' = FALSE
  /\ vaultFile' = NoVaultFile
  /\ UNCHANGED <<now, advances, sessions, issued, credentials, generalHits, authHits,
                 loginHits, lastChange, pending, contacts, mailQueue, contactsFile,
                 sent, resp, transporter, mails, req, got, profileVars,
                 corrupt>>

\* A caller (initializeEmailTransporter, sendContactEmail) calls
\* emailCredentials.getCredentials().
GetCredentials ==
  /\ got' = getCredentials(vaultFile)
  /\ UNCHANGED <<now, advances, sessions, issued, credentials, generalHits, authHits,
                 loginHits, lastChange, pending, contacts, mailQueue, contactsFile,
                 sent, resp, mailVars, req, vaultFile, profileVars, corrupt>>

\* ---------------------------------------------------------------- restart
\* The process ends and the server is started again: what lived in memory
\* (the sessions Map, both limiter stores, the profile cache, the requests
\* suspended at an await with their responses, the mail chains and their
\* timers) starts from scratch; the files stay, and the startup code runs
\* again on them (initContactsFile, initializeEmailTransporter,
\* initAdminCredentials).  Session ids are random and timestamped: the new
\* process issues none of the old ones.
Restart ==
  /\ sessions' = <<>>
  /\ pending' = {}
  /\ generalHits' = [ip \in IPs |-> NoHits]
  /\ authHits' = [ip \in IPs |-> NoHits]
  /\ loginHits' = [ip \in IPs |-> 0]
  /\ mails' = <<>>
  /\ mailQueue' = <<>>
  /\ profileCache' = NoDocument
  /\ profileCacheTime' = 0
  /\ contacts' = initContactsFile(contactsFile, contacts)
  /\ contactsFile' = TRUE
  /\ vault' = Loaded(vaultFile)
  /\ transporter' = initializeEmailTransporter(Loaded(vaultFile))
  /\ got' = NotCalled
  /\ credentials' = initAdminCredentials(TRUE, credentials)
  /\ sent' = NoData
  /\ resp' = Response("none", 0, "", NoToken)
  /\ UNCHANGED <<now, advances, issued, lastChange, req, vaultFile, profileFile,
                 corrupt>>

\* ------------------------------------------------------- specifications
\* The dashboard's client: the token in the Authorization header, or none.
HeaderCarriers == {Carrier(t, NoToken, NoToken, NoToken) : t \in TokenVals}

LoginPasswords == {PwEmpty, PwDefault, PwSecret}
Admin == Un("admin", "admin", TRUE)
CurrentPasswords == {PwEmpty, PwDefault, PwSecret, PwLongA}
NewPasswords == Passwords \ {PwEmpty}
LimitUsernames == {Admin, Un("guest", "guest", TRUE)}

\* Sessions: login, the two gates, logout, the clock.
Next ==
  \/ \E d \in SessionDeltas : AdvanceClock(d)
  \/ \E h \in Carriers : AuthCheck(Client, h, MaxHits)
  \/ \E h \in Carriers, url \in AdminUrls : AdminRequest(Client, h, url, MaxHits)
  \/ \E u \in Usernames, p \in LoginPasswords : LoginStart(Client, u, p, MaxHits)
  \/ \E r \in pending : LoginFinish(r)
  \/ \E h \in Carriers : Logout(Client, h, MaxHits)

Spec == Init /\ [][Next]_vars

\* Passwords: login and change-password, with logout and the clock.
NextPassword ==
  \/ \E d \in SessionDeltas : AdvanceClock(d)
  \/ \E p \in NewPasswords : LoginStart(Client, Admin, p, MaxHits)
  \/ \E r \in pending : LoginFinish(r)
  \/ \E h \in HeaderCarriers : Logout(Client, h, MaxHits)
  \/ \E h \in HeaderCarriers, cur \in CurrentPasswords, new \in NewPasswords :
       ChangePasswordStart(Client, h, cur, new, MaxHits)
  \/ \E r \in pending : ChangePasswordFinish(r)

SpecPassword == Init /\ [][NextPassword]_vars

\* The auth limiter, up to its quota and past it: the first client logs in
\* with right and wrong credentials and changes its password, the other one
\* only fails to log in.
NextAuthLimit ==
  \/ \E d \in WindowDeltas : AdvanceClock(d)
  \/ \E ip \in IPs, u \in LimitUsernames :
       /\ ip = Client \/ u.text = "guest"
       /\ LoginStart(ip, u, PwDefault, Cap(ip, AUTH_MAX))
  \/ \E r \in pending : LoginFinish(r)
  \/ \E h \in HeaderCarriers :
       ChangePasswordStart(Client, h, PwDefault, PwShort, Cap(Client, AUTH_MAX))

SpecAuthLimit == Init /\ [][NextAuthLimit]_vars

\* The general limiter, up to its quota and past it, for two clients.
NextQuota ==
  \/ \E d \in WindowDeltas : AdvanceClock(d)
  \/ \E ip \in IPs : Health(ip, Cap(ip, GENERAL_MAX))
  \/ \E ip \in IPs, b \in ContactBodies : SaveContact(ip, b, Cap(ip, GENERAL_MAX))

SpecQuota == Init /\ [][NextQuota]_vars

\* The requests of the store's client followed in one window: enough to fill
\* the store (two hits for each record saved) and to work on it.
StoreHits == 2 * MaxContacts + MaxHits

\* Bodies with a field at its limit, a timestamp of their own, or a long
\* User-Agent header.
StoreBodies ==
  ContactBodies \cup
  { Body(Repeat("n", 100), " Max@Example.org ", " " \o Repeat("m", 1000), "yesterday",
         Repeat("u", 501)),
    Body(Repeat("n", 101), "max@example.org", "Hello", "", "") }

\* The :id of a delete request.
IdParams == {"0", "0abc", "abc", "7", "1"}

\* The clock moves by a millisecond between two requests to the store.
StoreDeltas == {1}

StoreUrls == {u \in AdminUrls : ~u.dot}

\* The contact store: submissions, listing, exports and deletes, with the
\* login and the clock they depend on.
NextStore ==
  \/ \E d \in StoreDeltas : AdvanceClock(d)
  \/ LoginStart(Client, Admin, PwDefault, StoreHits)
  \/ \E r \in pending : LoginFinish(r)
  \/ \E b \in StoreBodies : SaveContact(Client, b, StoreHits)
  \/ GetContacts(Client, StoreHits)
  \/ \E h \in HeaderCarriers : DownloadContacts(Client, h, StoreHits)
  \/ \E h \in HeaderCarriers, url \in StoreUrls : AdminRequest(Client, h, url, StoreHits)
  \/ \E h \in HeaderCarriers : DeleteAll(Client, h, StoreHits)
  \/ \E h \in HeaderCarriers, id \in IdParams : DeleteContact(Client, h, id, StoreHits)
  \/ ContactsFileRemoved

SpecStore == Init /\ [][NextStore]_vars

\* The routes of the store behind requireAuth, with sessions that expire.
NextStoreAuth ==
  \/ \E d \in SessionDeltas : AdvanceClock(d)
  \/ LoginStart(Client, Admin, PwDefault, StoreHits)
  \/ \E r \in pending : LoginFinish(r)
  \/ \E b \in ContactBodies : SaveContact(Client, b, StoreHits)
  \/ \E h \in HeaderCarriers : DownloadContacts(Client, h, StoreHits)
  \/ \E h \in HeaderCarriers, url \in StoreUrls : AdminRequest(Client, h, url, StoreHits)
  \/ \E h \in HeaderCarriers : DeleteAll(Client, h, StoreHits)
  \/ \E h \in HeaderCarriers : DeleteContact(Client, h, "0", StoreHits)

SpecStoreAuth == Init /\ [][NextStoreAuth]_vars

\* The notification email: submissions whose write succeeds or fails, the
\* outcomes of sendMail, the retry timers, and the loss of the vault; the
\* server starts with or without its mail credentials.
InitMail == \E loaded \in BOOLEAN : Startup(loaded, NoRequest)

NextMail ==
  \/ \E d \in StoreDeltas : AdvanceClock(d)
  \/ \E b \in ContactBodies, writeOk \in BOOLEAN :
       SaveContactIO(Client, b, StoreHits, writeOk)
  \/ \E i \in 1..MaxContacts, ok \in BOOLEAN : SendMailSettles(i, ok)
  \/ \E i \in 1..MaxContacts : RetryTimer(i)
  \/ VaultLost

SpecMail == InitMail /\ [][NextMail]_vars

\* sendMail settles (the transporter has connection, greeting and socket
\* timeouts) and a timer that was set fires.
FairMail ==
  \A i \in 1..MaxContacts :
    /\ WF_vars(\E ok \in BOOLEAN : SendMailSettles(i, ok))
    /\ WF_vars(RetryTimer(i))

SpecMailFair == SpecMail /\ FairMail

\* The sanitizer: bodies of up to three levels, with plain texts, texts
\* with tags, a text past the length limit, keys with characters that are
\* not allowed, numbers and null.
LongText == Repeat("a", MAX_VALUE_LENGTH + 1)

Texts ==
  {"Hi there", "<b>bold</b>", "<script>alert(1)</script>", "a<script>x</script>b",
   "1 < 2", LongText}

Keys == {"name", "$where", "a.b"}

Leaves == {Str(t) : t \in Texts} \cup {Num("42"), Null}

Nested ==
  Leaves \cup {Arr(<<v>>) : v \in Leaves}
         \cup {Obj(<<k>>, <<v>>) : k \in Keys, v \in Leaves}

Bodies ==
  {Obj(<<k>>, <<v>>) : k \in Keys, v \in Nested}
    \cup {Arr(<<v>>) : v \in Nested}
    \cup {Obj(<<"a.b", "ab">>, <<v, Num("42")>>) : v \in Leaves}

InitSanitize == \E raw \in Bodies : Startup(TRUE, Request(raw, raw, FALSE))

NextSanitize == Sanitize

SpecSanitize == InitSanitize /\ [][NextSanitize]_vars

\* ------------------------------------------------------------------ claims
\* The general limiter lets the next request of ip through.
GeneralAdmits(ip) == ~Limited(Hit(generalHits[ip]), GENERAL_MAX)

\* The registry entry of token t is there and has not expired.
Live(t) == t \in DOMAIN sessions /\ sessions[t].expiresAt >= now

\* C1: a request to a route behind requireAuth (GET /api/auth-check), for every
\* token it presents: with no token or a token that is not in the registry it
\* is answered 401 "Authentication required" and the registry is unchanged;
\* with an entry whose expiresAt < now the entry is deleted and the answer is
\* 401 "Session expired"; otherwise it is admitted and the entry's expiresAt
\* becomes now + 24h.
C1_RequireAuthContract ==
  [][(resp'.route = "/api/auth-check" /\ GeneralAdmits(Client)) =>
     \A h \in Carriers :
       AuthCheck(Client, h, MaxHits) =>
         LET t == RequireAuthToken(h) IN
         /\ (t = NoToken \/ t \notin DOMAIN sessions) =>
              /\ resp' = Response("/api/auth-check", 401, "Authentication required", NoToken)
              /\ sessions' = sessions
         /\ (t \in DOMAIN sessions /\ sessions[t].expiresAt < now) =>
              /\ resp' = Response("/api/auth-check", 401, "Session expired", NoToken)
              /\ sessions' = Remove(sessions, t)
         /\ (t \in DOMAIN sessions /\ sessions[t].expiresAt >= now) =>
              /\ resp' = Response("/api/auth-check", 200, "", NoToken)
              /\ sessions' = [sessions EXCEPT ![t].expiresAt = now + SESSION_TTL]
    ]_vars

\* A check admitted at the last instant of a session, which it extends.
C1_Witness ==
  /\ resp = Response("/api/auth-check", 200, "", NoToken)
  /\ \E t \in DOMAIN sessions :
       /\ sessions[t].createdAt + SESSION_TTL = now
       /\ sessions[t].expiresAt = now + SESSION_TTL

AdminRouteNames == {"/admin" \o u.path : u \in AdminUrls}

\* C2: a token whose entry has been removed, or whose expiresAt has elapsed,
\* is rejected by requireAuth and by the /admin gate on every later request:
\* a removed entry never comes back, an elapsed entry stays elapsed until it
\* is removed, and no request is admitted on a token that is not live (401
\* from requireAuth, a redirect to /login from the gate when it looks at the
\* token, never a 200 from a route under /admin).
C2_DeadTokenRejected ==
  [][/\ \A t \in 1..issued :
          t \notin DOMAIN sessions => t \notin DOMAIN sessions'
     /\ \A t \in DOMAIN sessions :
          sessions[t].expiresAt < now =>
            t \notin DOMAIN sessions' \/ sessions'[t].expiresAt < now'
     /\ resp'.route = "/api/auth-check" =>
          \A h \in Carriers :
            (AuthCheck(Client, h, MaxHits) /\ ~Live(RequireAuthToken(h))) =>
              resp'.status = 401
     /\ resp'.route \in AdminRouteNames =>
          \A url \in {u \in AdminUrls : "/admin" \o u.path = resp'.route}, h \in Carriers :
            AdminRequest(Client, h, url, MaxHits) =>
              /\ (~Live(AdminGateToken(h)) /\ ~(url.dot /\ ~url.html)) =>
                   resp'.status = 302
              /\ ~Live(RequireAuthToken(h)) => resp'.status # 200
    ]_vars

\* The only request since the clock passed the session's expiry was sent to
\* the dashboard and redirected: the token issued before is gone.
C2_Witness ==
  /\ resp = Response("/admin/contacts", 302, "/login", NoToken)
  /\ issued = 1 /\ sessions = <<>>
  /\ now = SESSION_TTL + 1
  /\ generalHits[Client].count = 1

\* C3: POST /api/logout clears the caller's session: when the request carries
\* the token of a registry entry in the Authorization header, the x-session-id
\* header or the adminSession cookie, the entry is gone after the response.
C3_LogoutClearsSession ==
  [][(resp'.route = "/api/logout" /\ GeneralAdmits(Client)) =>
     \A h \in Carriers :
       Logout(Client, h, MaxHits) =>
         \A t \in {h.authorization, h.xSessionId, h.adminSession} \ {NoToken} :
           t \notin DOMAIN sessions'
    ]_vars

\* C4: logout always answers success, whatever token it is given (live,
\* unknown, destroyed before, or none); afterwards that token has no entry and
\* every other entry is as it was, so a second logout changes nothing.
C4_LogoutIdempotent ==
  [][(resp'.route = "/api/logout" /\ GeneralAdmits(Client)) =>
     \A h \in Carriers :
       Logout(Client, h, MaxHits) =>
         LET t == LogoutToken(h) IN
         /\ resp' = Response("/api/logout", 200, "", NoToken)
         /\ t \notin DOMAIN sessions'
         /\ DOMAIN sessions' = DOMAIN sessions \ {t}
         /\ \A k \in DOMAIN sessions' : sessions'[k] = sessions[k]
         /\ t \notin DOMAIN sessions => sessions' = sessions
    ]_vars

\* After two logins, a logout has left exactly one of the two sessions.
C4_Witness ==
  /\ resp = Response("/api/logout", 200, "", NoToken)
  /\ issued = 2
  /\ Cardinality(DOMAIN sessions) = 1

\* The auth limiter lets the next request of ip through.
AuthAdmits(ip) == ~Limited(Hit(authHits[ip]), AUTH_MAX)

\* C5: a login that passed the limiters and validation succeeds exactly when
\* the username is the stored username and the password is the one of the
\* stored hash; a success inserts one new entry, expiring at now + 24h, and
\* returns its token; a failure answers 401 and leaves the registry and the
\* credentials as they were.
C5_LoginContract ==
  [][resp'.route = "/api/login" =>
     /\ \A u \in Usernames, p \in LoginPasswords :
          (/\ LoginStart(Client, u, p, MaxHits)
           /\ GeneralAdmits(Client) /\ AuthAdmits(Client) /\ LoginValid(u, p)) =>
            /\ sessions' = sessions /\ credentials' = credentials
            /\ IF u.trimmed = credentials.username
                 THEN /\ resp' = Awaiting("/api/login")
                      /\ \E r \in pending' \ pending :
                           r.cred = credentials /\ r.password = p
                 ELSE /\ resp' = Response("/api/login", 401, "Invalid credentials", NoToken)
                      /\ pending' = pending
     /\ \A r \in pending :
          (r.kind = "login" /\ LoginFinish(r)) =>
            /\ credentials' = credentials
            /\ IF r.password.head = r.cred.passwordHash.key
                 THEN /\ resp'.status = 200
                      /\ resp'.token \notin DOMAIN sessions
                      /\ DOMAIN sessions' = DOMAIN sessions \cup {resp'.token}
                      /\ sessions'[resp'.token].expiresAt = now + SESSION_TTL
                      /\ sessions'[resp'.token].username = r.cred.username
                      /\ \A k \in DOMAIN sessions : sessions'[k] = sessions[k]
                 ELSE /\ resp' = Response("/api/login", 401, "Invalid credentials", NoToken)
                      /\ sessions' = sessions
    ]_vars

\* A second login has succeeded and the first session is still there.
C5_Witness ==
  /\ resp = Response("/api/login", 200, "", 2)
  /\ DOMAIN sessions = {1, 2}
  /\ sessions[2].expiresAt = now + SESSION_TTL

\* C6: after a change-password that answered success with new password P, a
\* login that reads the credentials it wrote fails (401) with the previous
\* password and succeeds with P.
C6_LoginAfterChange ==
  [][(resp'.route = "/api/login" /\ lastChange # NoChange) =>
     \A r \in pending :
       (r.kind = "login" /\ r.cred = credentials /\ LoginFinish(r)) =>
         /\ r.password = lastChange.old => resp'.status = 401
         /\ r.password = lastChange.new => resp'.status = 200
    ]_vars

\* A login has succeeded after a password change, with the new password.
C6_Witness ==
  /\ lastChange # NoChange
  /\ resp = Response("/api/login", 200, "", 2)
  /\ credentials.passwordHash.key = lastChange.new.head

\* C7, as claimed: from the bootstrap record and before any password change,
\* the default credentials log in once, so at most one session has been issued.
C7_DefaultLoginOnce == credentials.updatedBy = "system" => issued <= 1

\* C7, amended: from the bootstrap record and before any password change,
\* every login with the default credentials that passes the limiters succeeds
\* and opens a new session.
C7_DefaultLoginSucceeds ==
  [][(resp'.route = "/api/login" /\ credentials.updatedBy = "system") =>
     /\ (/\ LoginStart(Client, Admin, PwDefault, MaxHits)
         /\ GeneralAdmits(Client) /\ AuthAdmits(Client)) =>
          resp' = Awaiting("/api/login")
     /\ \A r \in pending :
          (r.kind = "login" /\ r.password = PwDefault /\ LoginFinish(r)) =>
            /\ resp'.status = 200
            /\ resp'.token \notin DOMAIN sessions
            /\ resp'.token \in DOMAIN sessions'
    ]_vars

\* The bootstrap record is unchanged and a second login has succeeded.
C7_Witness ==
  /\ credentials = DefaultCredentials
  /\ resp = Response("/api/login", 200, "", 2)
  /\ DOMAIN sessions = {1, 2}

\* C8: change-password goes on only with a live session; it answers 401 when
\* currentPassword is not the one of the hash it read, 400 when newPassword is,
\* and otherwise writes the new hash (cost 12) with updatedAt, updatedBy and
\* updatedFrom; whenever it does not answer success the credentials record is
\* unchanged.
C8_ChangePasswordContract ==
  [][resp'.route = "/api/change-password" =>
     /\ resp'.status # 200 => credentials' = credentials
     /\ (/\ resp'.status # 401 /\ generalHits' # generalHits
         /\ GeneralAdmits(Client)) =>
          \A h \in HeaderCarriers :
            ~Live(RequireAuthToken(h)) =>
              \A cur \in CurrentPasswords, new \in NewPasswords :
                ~ChangePasswordStart(Client, h, cur, new, MaxHits)
     /\ (resp' = Awaiting("/api/change-password") /\ generalHits' # generalHits) =>
          \E r \in pending' \ pending :
            /\ pending' = pending \cup {r}
            /\ Live(r.token)
            /\ ChangePasswordValid(r.password, r.newPassword)
            /\ r.cred = credentials
     /\ \A r \in pending :
          (r.kind = "change-password" /\ ChangePasswordFinish(r)) =>
            IF r.password.head # r.cred.passwordHash.key
              THEN resp' = Response("/api/change-password", 401,
                                    "Current password is incorrect", NoToken)
            ELSE IF r.newPassword.head = r.cred.passwordHash.key
              THEN resp'.status = 400
            ELSE /\ resp'.status = 200
                 /\ credentials'.passwordHash =
                      [alg |-> "bcrypt", cost |-> 12, key |-> r.newPassword.head]
                 /\ credentials'.updatedAt = now
                 /\ credentials'.updatedBy =
                      (IF r.token \in DOMAIN sessions
                         THEN sessions[r.token].username ELSE "admin")
                 /\ credentials'.updatedFrom = r.ip
                 /\ credentials'.username = r.cred.username
    ]_vars

\* A password change has succeeded after the clock moved, and is stamped.
C8_Witness ==
  /\ resp = Response("/api/change-password", 200, "", NoToken)
  /\ now > 0
  /\ credentials.updatedAt = now
  /\ credentials.updatedFrom = Client

\* A login is turned away by the auth limiter: no session, nothing suspended.
AuthRejected ==
  /\ resp' = Response("/api/login", 429, AuthMessage, NoToken)
  /\ pending' = pending
  /\ sessions' = sessions

\* C9, as claimed: of the logins of one client IP in one window the 6th is
\* rejected, whatever its credentials, and the first 5 are not rejected by the
\* auth limiter.
C9_FirstFiveLogins ==
  [][resp'.route = "/api/login" =>
     \A ip \in IPs, u \in LimitUsernames :
       (LoginStart(ip, u, PwDefault, Cap(ip, AUTH_MAX)) /\ GeneralAdmits(ip)) =>
         /\ loginHits'[ip] > AUTH_MAX => AuthRejected
         /\ loginHits'[ip] <= AUTH_MAX => resp'.status # 429
    ]_vars

\* C9, amended: the 6th login of a window is rejected, whatever its
\* credentials, and opens no session; a login is rejected by the auth limiter
\* exactly when the client's requests that reached the auth limiter in the
\* window, logins and change-password together, have passed 5.
C9_AuthLimit ==
  [][resp'.route = "/api/login" =>
     \A ip \in IPs, u \in LimitUsernames :
       (LoginStart(ip, u, PwDefault, Cap(ip, AUTH_MAX)) /\ GeneralAdmits(ip)) =>
         /\ loginHits'[ip] > AUTH_MAX => AuthRejected
         /\ authHits'[ip].count > AUTH_MAX => AuthRejected
         /\ authHits'[ip].count <= AUTH_MAX => resp'.status # 429
         /\ \A other \in IPs \ {ip} :
              authHits'[other] = authHits[other] /\ loginHits'[other] = loginHits[other]
    ]_vars

\* The 6th login of the window has been rejected.
C9_Witness ==
  /\ resp = Response("/api/login", 429, AuthMessage, NoToken)
  /\ loginHits[Client] = AUTH_MAX + 1

\* C10: every request behind the general limiter, POST /api/save-contact
\* included, takes one unit of its client's quota of 100 per window: the
\* client's first 100 requests of a window pass the limiter, the 101st does not.
C10_OneUnitPerRequest ==
  [][\A ip \in IPs :
       (\/ Health(ip, Cap(ip, GENERAL_MAX))
        \/ \E b \in ContactBodies : SaveContact(ip, b, Cap(ip, GENERAL_MAX))) =>
         /\ generalHits'[ip] = Hit(generalHits[ip])
         /\ resp'.status = 429 <=> generalHits'[ip].count > GENERAL_MAX
    ]_vars

\* C11: GET /health answers 200 in every reachable state, for every client
\* and after any number of earlier requests of that client.
C11_HealthAlways200 == resp.route = "/health" => resp.status = 200

\* The store after the step does not begin with the store before it: a
\* record has gone.
RecordLost ==
  ~(Len(contacts') >= Len(contacts) /\ SubSeq(contacts', 1, Len(contacts)) = contacts)

\* The step left the store as it was and its response carries nothing of it.
StoreUntouched == contacts' = contacts /\ sent' = NoData /\ resp'.status # 200

\* C12: the two deletes and the three exports neither change the store nor
\* return its contents for a request whose token is not that of an unexpired
\* registry entry, and a record leaves the store only by a delete that
\* carried such a token.
C12_StoreBehindAuth ==
  [][generalHits' # generalHits =>
     /\ \A h \in HeaderCarriers :
          ~Live(RequireAuthToken(h)) =>
            /\ (resp'.route = "/api/contacts/delete-all"
                /\ DeleteAll(Client, h, StoreHits)) => StoreUntouched
            /\ (resp'.route = "/api/contacts/:id"
                /\ DeleteContact(Client, h, "0", StoreHits)) => StoreUntouched
            /\ (resp'.route = "/download-contacts"
                /\ DownloadContacts(Client, h, StoreHits)) => StoreUntouched
            /\ \A url \in StoreUrls :
                 (resp'.route = "/admin" \o url.path
                  /\ AdminRequest(Client, h, url, StoreHits)) => StoreUntouched
     /\ RecordLost =>
          /\ resp'.status = 200
          /\ \E h \in HeaderCarriers :
               /\ Live(RequireAuthToken(h))
               /\ \/ DeleteAll(Client, h, StoreHits)
                  \/ DeleteContact(Client, h, "0", StoreHits)
    ]_vars

\* A delete with the token of an expired session has been refused and the
\* record is still in the store.
C12_Witness ==
  /\ resp = Response("/api/contacts/:id", 401, "Session expired", NoToken)
  /\ Len(contacts) > 0
  /\ contacts[1].id = 0

\* The general limiter lets a save-contact of ip through both of its hits.
SaveAdmitted(ip) ==
  /\ ~Limited(Hit(generalHits[ip]), GENERAL_MAX)
  /\ ~Limited([Hit(generalHits[ip]) EXCEPT !.count = @ + 1], GENERAL_MAX)

\* The bodies of StoreBodies that pass the validators, and those that do not
\* (an empty message, a name of 101 characters).
GoodBodies == {b \in StoreBodies : b.message # "" /\ Len(b.name) <= 100}
BadBodies == StoreBodies \ GoodBodies

\* C13: a valid POST /api/save-contact appends exactly one record at the end
\* of the store, with the email in lower case and the id the response
\* returns; every later GET /api/contacts returns the store, which holds the
\* record until a delete (or the loss of the file) removes it.
C13_SaveThenList ==
  [][/\ resp'.route = "/api/save-contact" =>
          \A b \in GoodBodies :
            (SaveContact(Client, b, StoreHits) /\ SaveAdmitted(Client)) =>
              /\ resp'.status = 200
              /\ Len(contacts') = Len(contacts) + 1
              /\ SubSeq(contacts', 1, Len(contacts)) = contacts
              /\ LET rec == contacts'[Len(contacts')] IN
                 /\ rec.id \in Int /\ sent' = Data("id", <<>>, rec.id)
                 /\ \A i \in 1..Len(rec.email) : Char(rec.email, i) \notin Range(UpperCase)
                 /\ b.email = "JANE@Example.com" => rec.email = "jane@example.com"
                 /\ b.email = " Max@Example.org " => rec.email = "max@example.org"
     /\ (resp'.route = "/api/contacts" /\ GetContacts(Client, StoreHits)) =>
          /\ resp'.status = 200
          /\ sent' = Data("list", contacts, Len(contacts))
          /\ contacts' = contacts
     /\ RecordLost =>
          \/ resp'.route \in {"/api/contacts/delete-all", "/api/contacts/:id"}
             /\ resp'.status = 200 /\ generalHits' # generalHits
          \/ ContactsFileRemoved
    ]_vars

\* GET /api/contacts has returned two saved records, the second one with the
\* email of the submission in lower case.
C13_Witness ==
  /\ resp = Response("/api/contacts", 200, "", NoToken)
  /\ sent.kind = "list" /\ sent.list = contacts
  /\ Len(contacts) = 2
  /\ contacts[2].email = "jane@example.com"
  /\ mailQueue = <<contacts[1].id, contacts[2].id>>

\* C14: a POST /api/save-contact that fails field validation answers 400
\* "Validation failed", leaves the store as it was (same records, same file)
\* and hands no notification to the mailer.
C14_InvalidContactRejected ==
  [][resp'.route = "/api/save-contact" =>
     \A b \in BadBodies :
       (SaveContact(Client, b, StoreHits) /\ SaveAdmitted(Client)) =>
         /\ resp' = Response("/api/save-contact", 400, "Validation failed", NoToken)
         /\ contacts' = contacts
         /\ contactsFile' = contactsFile
         /\ mailQueue' = mailQueue
         /\ sent' = NoData
    ]_vars

\* A submission has been rejected with 400 while the store holds a record.
C14_Witness ==
  /\ resp = Response("/api/save-contact", 400, "Validation failed", NoToken)
  /\ Len(contacts) = 1
  /\ Len(mailQueue) = 1

\* The :id is, as a text, the id of a record of the store.
Matches(id) == \E i \in DOMAIN contacts : ToString(contacts[i].id) = id

\* The store without its first record whose id is, as a text, id.
WithoutFirst(id) ==
  LET i == CHOOSE k \in DOMAIN contacts :
             /\ ToString(contacts[k].id) = id
             /\ \A j \in 1..(k - 1) : ToString(contacts[j].id) # id
  IN SubSeq(contacts, 1, i - 1) \o SubSeq(contacts, i + 1, Len(contacts))

\* C15: an authenticated DELETE /api/contacts/:id whose :id is the id of no
\* stored record answers 404 and leaves the store unchanged, for every store
\* and every such :id, those that are not integers included.
C15_DeleteUnknownId ==
  [][(resp'.route = "/api/contacts/:id" /\ contactsFile) =>
     \A h \in HeaderCarriers, id \in IdParams :
       (/\ Live(RequireAuthToken(h)) /\ ~Matches(id)
        /\ DeleteContact(Client, h, id, StoreHits)) =>
         /\ resp'.status = 404
         /\ contacts' = contacts
    ]_vars

\* C16: an authenticated DELETE /api/contacts/:id whose :id is the id of a
\* stored record removes the first record with that id and no other, and
\* returns as remaining the previous size minus one, also when two records
\* carry the same id.
C16_DeleteRemovesOne ==
  [][(resp'.route = "/api/contacts/:id" /\ contactsFile) =>
     \A h \in HeaderCarriers, id \in IdParams :
       (/\ Live(RequireAuthToken(h)) /\ Matches(id)
        /\ DeleteContact(Client, h, id, StoreHits)) =>
         /\ resp'.status = 200
         /\ contacts' = WithoutFirst(id)
         /\ sent' = Data("remaining", <<>>, Len(contacts) - 1)
    ]_vars

\* C17: an authenticated delete-all empties the store and returns as deleted
\* the number of records the store held just before; the GET /api/contacts
\* that follows it returns the empty list.
C17_DeleteAllEmpties ==
  [][/\ (resp'.route = "/api/contacts/delete-all" /\ contactsFile) =>
          \A h \in HeaderCarriers :
            (Live(RequireAuthToken(h)) /\ DeleteAll(Client, h, StoreHits)) =>
              /\ resp'.status = 200
              /\ contacts' = <<>>
              /\ sent' = Data("deleted", <<>>, Len(contacts))
     /\ (/\ resp = Response("/api/contacts/delete-all", 200, "", NoToken)
         /\ GetContacts(Client, StoreHits)) =>
          sent' = Data("list", <<>>, 0)
    ]_vars

\* delete-all has removed two records and reported two.
C17_Witness ==
  /\ resp = Response("/api/contacts/delete-all", 200, "", NoToken)
  /\ sent = Data("deleted", <<>>, 2)
  /\ contacts = <<>>
  /\ Len(mailQueue) = 2

\* C18: in every reachable state no two records of the store have the same id.
C18_UniqueIds ==
  \A i, j \in DOMAIN contacts : i # j => contacts[i].id # contacts[j].id

\* a is b with some of its elements left out, the others in b's order.
RECURSIVE IsSubsequence(_, _)
IsSubsequence(a, b) ==
  IF a = <<>> THEN TRUE
  ELSE IF b = <<>> THEN FALSE
  ELSE IF Head(a) = Head(b) THEN IsSubsequence(Tail(a), Tail(b))
  ELSE IsSubsequence(a, Tail(b))

\* C19: the store keeps insertion order: a step either adds one record at
\* the end of the list or leaves a subsequence of it, so the list is always
\* the appended records in the order of their appends, minus the deleted
\* ones; GET /api/contacts returns that list, and the empty list when the
\* file does not exist.
C19_InsertionOrder ==
  [][/\ \/ IsSubsequence(contacts', contacts)
        \/ /\ Len(contacts') = Len(contacts) + 1
           /\ SubSeq(contacts', 1, Len(contacts)) = contacts
           /\ resp'.route = "/api/save-contact"
     /\ (resp'.route = "/api/contacts" /\ GetContacts(Client, StoreHits)) =>
          /\ resp'.status = 200
          /\ contactsFile => sent'.list = contacts
          /\ ~contactsFile => sent'.list = <<>>
    ]_vars

\* After two appends and the delete of the first record, the listing returns
\* the second record alone.
C19_Witness ==
  /\ resp = Response("/api/contacts", 200, "", NoToken)
  /\ mailQueue = <<0, 1>>
  /\ Len(sent.list) = 1
  /\ sent.list[1].id = 1

\* C20: every record of the store has a name of at most 100 characters, an
\* email of at most 100 characters without upper-case letters, a message of at
\* most 1000 characters, a userAgent of at most 500 characters and an
\* ISO-8601 timestamp.
C20_RecordShape ==
  \A i \in DOMAIN contacts :
    LET c == contacts[i] IN
    /\ Len(c.name) <= 100
    /\ Len(c.email) <= 100
    /\ \A k \in 1..Len(c.email) : Char(c.email, k) \notin Range(UpperCase)
    /\ Len(c.message) <= 1000
    /\ Len(c.userAgent) <= 500
    /\ IsISO8601(c.timestamp)

\* C21: sendContactEmail is called for a submission only after its record was
\* written and only after its response was sent.
C21_MailAfterResponse ==
  \A i \in DOMAIN mails : mails[i].written /\ mails[i].responded

\* A step of the i-th call chain that changes nothing but the chain (and,
\* when a timer fires, the clock).
MailStep(i) ==
  /\ i \in DOMAIN mails
  /\ Len(mails') = Len(mails)
  /\ mails'[i] # mails[i]

\* C22: a call chain makes at most three sendMail calls, a retry is called no
\* earlier than 2 seconds after the failure before it, a chain that has
\* returned (at the first success, or failing in its third call) makes no
\* further step, and under the fairness of FairMail every chain returns.
C22_BoundedRetry ==
  /\ [](\A i \in DOMAIN mails :
          /\ mails[i].attempts <= MAX_RETRIES + 1
          /\ mails[i].retryCount <= MAX_RETRIES
          /\ mails[i].delays <= MAX_RETRIES
          /\ mails[i].retryCount > 0 /\ mails[i].phase = "sending"
               => mails[i].calledAt >= mails[i].due
          /\ mails[i].phase = "delay" => mails[i].due >= mails[i].calledAt + RETRY_DELAY
          /\ mails[i].phase = "failed" => mails[i].retryCount = MAX_RETRIES)
  /\ [][\A i \in DOMAIN mails :
          /\ mails[i].phase \in Done => mails'[i] = mails[i]
          /\ mails[i].phase = "sending" /\ mails'[i].phase \in {"delay", "failed"}
               => /\ (mails'[i].phase = "failed") = (mails[i].retryCount = MAX_RETRIES)
                  /\ mails'[i].phase = "delay" => mails'[i].due = now + RETRY_DELAY
          /\ mails[i].phase = "delay" /\ mails'[i] # mails[i]
               => /\ now' >= mails[i].due
                  /\ mails'[i].retryCount = mails[i].retryCount + 1]_vars
  /\ \A i \in 1..MaxContacts :
       (Len(mails) >= i) ~> (Len(mails) >= i /\ mails[i].phase \in Done)

\* A chain has failed in its third sendMail call, after two waits.
C22_Witness ==
  \E i \in DOMAIN mails :
    /\ mails[i].phase = "failed"
    /\ mails[i].attempts = MAX_RETRIES + 1
    /\ mails[i].delays = MAX_RETRIES

\* C23: with no transporter or no credentials in the vault the dispatch is
\* skipped: a chain that made no sendMail call has set no retry timer and
\* has not returned a failure.
C23_DisabledSkipped ==
  \A i \in DOMAIN mails :
    (~transporter \/ ~vault) /\ mails[i].attempts = 0
      => mails[i].delays = 0 /\ mails[i].phase \notin {"delay", "failed"}

\* C24: the response to a stored submission is the 200 with the record's id
\* whatever the state of the mail service, it is sent while the call chain
\* has not returned, and no step of a call chain touches the store or the
\* response.
C24_MailNeverSurfaces ==
  [][/\ Len(mails') > Len(mails)
        => /\ resp' = Response("/api/save-contact", 200, "", NoToken)
           /\ sent' = Data("id", <<>>, contacts'[Len(contacts')].id)
           /\ contacts' = Append(StoredContacts, contacts'[Len(contacts')])
           /\ mails'[Len(mails')].phase \notin Done
     /\ \A i \in DOMAIN mails :
          MailStep(i) => UNCHANGED <<contacts, contactsFile, resp, sent>>]_vars

\* The mail of a stored submission has failed for good; its record is in the
\* store and its response was the 200.
C24_Witness ==
  /\ Len(mails) = 1
  /\ mails[1].phase = "failed"
  /\ Len(contacts) = 1 /\ contacts[1].id = mailQueue[1]
  /\ resp = Response("/api/save-contact", 200, "", NoToken)

\* The texts of the string values of v, at every depth.
RECURSIVE StringsOf(_)
StringsOf(v) ==
  IF v.type = "string" THEN {v.text}
  ELSE UNION {StringsOf(v.items[i]) : i \in DOMAIN v.items}

\* The keys of the objects of v, at every depth.
RECURSIVE KeysOf(_)
KeysOf(v) ==
  Range(v.keys) \cup UNION {KeysOf(v.items[i]) : i \in DOMAIN v.items}

\* The values of v, at every depth, that are neither strings nor objects.
RECURSIVE ScalarsOf(_)
ScalarsOf(v) ==
  IF v.type \in {"number", "null"} THEN {v}
  ELSE UNION {ScalarsOf(v.items[i]) : i \in DOMAIN v.items}

\* The text holds an opening script tag.
HasScriptTag(s) ==
  \E i \in 1..(Len(s) - 6) : ToLowerCase(SubSeq(s, i, i + 6)) = "<script"

\* C25: after sanitizeInput every key of the body, at every depth and inside
\* arrays, is made of [A-Za-z0-9_] only, every string value holds no script
\* tag and at most 10,000 characters, and the other values are those of the
\* input.
C25_Sanitized ==
  req.sanitized =>
    /\ \A key \in KeysOf(req.body) : Positions(key, KeyAlphabet, 1) = 1..Len(key)
    /\ \A s \in StringsOf(req.body) :
         Len(s) <= MAX_VALUE_LENGTH /\ ~HasScriptTag(s)
    /\ ScalarsOf(req.body) \subseteq ScalarsOf(req.raw)

\* The URLs of the model that are answered by the route of a response.
UrlsOf(route) == {u \in AdminUrls : "/admin" \o u.path = route}

\* The gate is skipped for this URL.
Bypass(url) == url.dot /\ ~url.html

\* C26: a request under /admin (other than a static sub-resource) whose
\* token is missing, unknown or expired is redirected to /login; a route
\* behind requireAuth answers such a request with 401; and GET /admin/contacts
\* with a live token in the `session` query parameter alone is served the
\* dashboard.
C26_RouteGating ==
  [][/\ (resp'.route \in AdminRouteNames /\ GeneralAdmits(Client)) =>
          \A url \in UrlsOf(resp'.route), h \in Carriers :
            AdminRequest(Client, h, url, MaxHits) =>
              /\ (~Live(AdminGateToken(h)) /\ ~Bypass(url)) =>
                   resp' = Response(resp'.route, 302, "/login", NoToken)
              /\ (url.text = "/contacts" /\ h.session # NoToken /\ Live(h.session)) =>
                   resp'.status = 200
     /\ (resp'.route = "/api/auth-check" /\ GeneralAdmits(Client)) =>
          \A h \in Carriers :
            (AuthCheck(Client, h, MaxHits) /\ ~Live(RequireAuthToken(h))) =>
              resp'.status = 401
    ]_vars

\* The path of the URL ends in an extension.
HasExtension(url) == Positions(url.path, {"."}, 1) # {}

C28_ExpiryInvariant ==
  /\ [](\A t \in DOMAIN sessions :
          /\ sessions[t].expiresAt <= now + SESSION_TTL
          /\ sessions[t].expiresAt >= sessions[t].createdAt + SESSION_TTL)
  /\ [][\A t \in DOMAIN sessions' :
          /\ t \notin DOMAIN sessions =>
               /\ sessions'[t].createdAt = now
               /\ sessions'[t].expiresAt = now + SESSION_TTL
          /\ (t \in DOMAIN sessions /\ sessions'[t] # sessions[t]) =>
               /\ sessions'[t] = [sessions[t] EXCEPT !.expiresAt = now + SESSION_TTL]
               /\ sessions'[t].expiresAt >= sessions[t].expiresAt
               /\ sessions[t].expiresAt >= now
               /\ resp'.status \notin {401, 302, 429}
               /\ \E h \in Carriers :
                    /\ RequireAuthToken(h) = t
                    /\ \/ AuthCheck(Client, h, MaxHits)
                       \/ \E url \in AdminUrls : AdminRequest(Client, h, url, MaxHits)
        ]_vars

\* A session was extended by a check made after its creation.
C28_Witness ==
  \E t \in DOMAIN sessions :
    /\ sessions[t].expiresAt = now + SESSION_TTL
    /\ sessions[t].expiresAt > sessions[t].createdAt + SESSION_TTL
    /\ resp.status = 200

\* C29: every request admitted on a session token, by requireAuth or by the
\* /admin gate, sets the expiresAt of that session to now + 24h.
C29_SlidingExpiry ==
  [][/\ (resp'.route = "/api/auth-check" /\ GeneralAdmits(Client)) =>
          \A h \in Carriers :
            (AuthCheck(Client, h, MaxHits) /\ Live(RequireAuthToken(h))) =>
              sessions'[RequireAuthToken(h)].expiresAt = now + SESSION_TTL
     /\ (resp'.route \in AdminRouteNames /\ GeneralAdmits(Client)) =>
          \A url \in UrlsOf(resp'.route), h \in Carriers :
            (/\ AdminRequest(Client, h, url, MaxHits)
             /\ adminGate(sessions, h, url).verdict = "next") =>
              sessions'[AdminGateToken(h)].expiresAt = now + SESSION_TTL
    ]_vars

\* The 401 of a failed login.
InvalidCredentials == Response("/api/login", 401, "Invalid credentials", NoToken)

\* What a login may change besides the limiters' counters.
ServerState == <<sessions, issued, credentials, contacts, contactsFile, lastChange>>

\* C30: a well-formed login with a wrong username, and one with the right
\* username and a wrong password, are answered with the same status and
\* body, for every stored record, and leave everything but the counters of
\* the rate limiters as it was.
C30_GenericLoginFailure ==
  [][resp'.route = "/api/login" =>
       /\ resp'.status = 401 => resp' = InvalidCredentials /\ UNCHANGED ServerState
       /\ \A r \in pending :
            (LoginFinish(r) /\ ~BcryptCompare(r.password, r.cred.passwordHash)) =>
              /\ r.username = r.cred.username
              /\ resp' = InvalidCredentials
              /\ UNCHANGED <<ServerState, generalHits, authHits>>
       /\ (generalHits' # generalHits /\ GeneralAdmits(Client)
             /\ ~Limited(Hit(authHits[Client]), AUTH_MAX)) =>
            \A u \in Usernames, p \in LoginPasswords :
              (/\ LoginStart(Client, u, p, MaxHits)
               /\ LoginValid(u, p)
               /\ u.trimmed # credentials.username) =>
                /\ resp' = InvalidCredentials
                /\ UNCHANGED <<ServerState, pending>>
    ]_vars

\* Two logins have failed with the 401 and nothing but the counters of the
\* limiters has moved.
C30_Witness ==
  /\ resp = InvalidCredentials
  /\ authHits[Client].count = 2
  /\ pending = {}
  /\ sessions = <<>> /\ issued = 0

\* The vault: every file that may lie at assets/email-credentials.enc, the
\* calls of getCredentials() and the loss of the file.
InitVault == \E file \in VaultFiles : StartupWith(file, NoRequest)

NextVault ==
  \/ GetCredentials
  \/ VaultLost

SpecVault == InitVault /\ [][NextVault]_vars

\* C31: getCredentials() always returns: null when the file is missing or is
\* not the JSON of an object, when the checksum is not the digest of data and
\* key, when the decryption yields nothing, or when user, password or service
\* is missing or empty, and the decrypted object otherwise; it decrypts only
\* a file whose checksum has matched, and it changes neither the file nor the
\* transporter.
C31_GetCredentials ==
  [][got' # got =>
       LET f == vaultFile
           matched == f.kind = "object" /\ f.checksum = SHA256(f.data, encryptionKey)
           complete == /\ f.data.plain.kind = "object"
                       /\ f.data.plain.user \notin {Undefined, ""}
                       /\ f.data.plain.password \notin {Undefined, ""}
                       /\ f.data.plain.service \notin {Undefined, ""}
       IN /\ got'.kind = "return"
          /\ f.kind # "object" => got'.value = NoCredentials
          /\ ~matched => got'.value = NoCredentials /\ ~got'.decrypted
          /\ got'.decrypted => matched
          /\ (matched /\ f.data.key # encryptionKey) => got'.value = NoCredentials
          /\ (matched /\ f.data.plain.kind = "empty") => got'.value = NoCredentials
          /\ (matched /\ ~complete) => got'.value = NoCredentials
          /\ (matched /\ f.data.key = encryptionKey /\ complete) =>
               got'.value = f.data.plain /\ got'.value # NoCredentials
          /\ UNCHANGED <<vaultFile, vault, transporter, mails>>
    ]_vars

\* getCredentials() has decrypted the file of the deployment and has returned
\* its three fields.
C31_Witness ==
  /\ vaultFile = StoredVaultFile
  /\ got = Outcome("return", Plain("object", "x", "x", "x"), TRUE)

\* The profile: requests before and after the five minutes of the cache,
\* while the file is replaced, removed or damaged.
ProfileDeltas == {PROFILE_CACHE_DURATION - 1, 1}

NextProfile ==
  \/ \E d \in ProfileDeltas : AdvanceClockUpTo(d, MaxAdvances + 1)
  \/ GetProfile(Client, MaxHits)
  \/ \E file \in ProfileFiles : ProfileFileChanged(file)

SpecProfile == Init /\ [][NextProfile]_vars

\* C32: a response of GET /api/profile with source 'cache' carries the
\* cached document and the time of its load, which is less than 5 minutes
\* back; the cache holds what the last successful load read and when; a
\* request 5 minutes or more after that load which finds a readable file
\* answers with source 'file' and the file's document and replaces the cache
\* and its timestamp; a request that answers 404 or 500 leaves both alone;
\* no request changes the file.
C32_ProfileCache ==
  [][/\ (profileCache' # profileCache \/ profileCacheTime' # profileCacheTime) =>
          /\ resp'.route = "/api/profile" /\ sent'.kind = "file"
          /\ profileCache' = profileFile /\ profileCacheTime' = now
     /\ (resp'.route = "/api/profile" /\ GetProfile(Client, MaxHits)) =>
       /\ sent'.kind = "cache" =>
            /\ sent'.list = <<profileCache, ToISOString(profileCacheTime)>>
            /\ profileCache \in Documents
            /\ now - profileCacheTime < PROFILE_CACHE_DURATION
            /\ UNCHANGED <<profileCache, profileCacheTime>>
       /\ (now - profileCacheTime >= PROFILE_CACHE_DURATION
             /\ profileFile \in Documents) =>
            /\ resp'.status = 200
            /\ sent' = Data("file", <<profileFile, ToISOString(now)>>, 1)
            /\ profileCache' = profileFile
            /\ profileCacheTime' = now
       /\ sent'.kind = "file" =>
            /\ profileFile \notin {"missing", "unparsable"}
            /\ profileCache' = profileFile /\ profileCacheTime' = now
       /\ resp'.status # 200 =>
            /\ resp'.status \in {404, 500}
            /\ profileFile \in {"missing", "unparsable"}
            /\ UNCHANGED <<profileCache, profileCacheTime>>
       /\ UNCHANGED profileFile
    ]_vars

\* Exactly five minutes after a load of the first version, with the second
\* version in the file, the request has answered with the second version
\* from the file and has replaced the cache.
C32_Witness ==
  /\ resp = Response("/api/profile", 200, "", NoToken)
  /\ now = PROFILE_CACHE_DURATION
  /\ sent = Data("file", <<"profile v2", ToISOString(PROFILE_CACHE_DURATION)>>, 1)
  /\ profileCache = "profile v2"
  /\ profileCacheTime = PROFILE_CACHE_DURATION
  /\ generalHits[Client].count = 2

\* Whether s begins with p, and s without its first n characters.
StartsWith(s, p) == Len(s) >= Len(p) /\ SubSeq(s, 1, Len(p)) = p
Drop(s, n) == SubSeq(s, n + 1, Len(s))

\* The length of the first line of s.
RECURSIVE LineLength(_)
LineLength(s) ==
  IF Len(s) = 0 \/ Char(s, 1) = "\n" THEN 0 ELSE 1 + LineLength(Drop(s, 1))

\* Whether text is made of the blocks of the records i, i + 1, ... of list
\* and of nothing else: each block begins with "#" and the position of the
\* record counted from 1, goes on with the name, the email and the message
\* of that record and a date line, and ends with "---"; two line feeds stand
\* between a block and the next, and nothing follows the last block.
RECURSIVE BlocksFrom(_, _, _)
BlocksFrom(text, list, i) ==
  LET head == "#" \o ToString(i) \o "\nName: " \o list[i].name \o "\nEmail: "
                \o list[i].email \o "\nMessage: " \o list[i].message \o "\nDate: "
      date == Drop(text, Len(head))
      close == Drop(date, LineLength(date))
      rest == Drop(close, 4)
  IN /\ StartsWith(text, head)
     /\ StartsWith(close, "\n---")
     /\ IF i = Len(list) THEN rest = ""
        ELSE StartsWith(rest, "\n\n") /\ BlocksFrom(Drop(rest, 2), list, i + 1)

\* C33: the text that GET /admin/contacts/download-txt sends has one block
\* for each record of the store and nothing else, in the order of the store
\* (the order GET /api/contacts lists them in); the block of the record at
\* position i, counted from 0, is headed #<i+1> and ends with ---; a blank
\* line stands between two blocks; the text of an empty store is empty.
C33_ExportAsText ==
  [][(/\ resp'.route = "/admin/contacts/download-txt"
      /\ resp'.status = 200
      /\ generalHits' # generalHits) =>
       /\ sent'.kind = "text"
       /\ sent'.n = Len(contacts)
       /\ contacts' = contacts
       /\ IF Len(contacts) = 0 THEN sent'.list = <<"">>
          ELSE BlocksFrom(sent'.list[1], contacts, 1)
    ]_vars

\* The export of a store of two records: the first one saved at time 0
\* without a timestamp of its own, then the second one.
C33_Witness ==
  /\ resp = Response("/admin/contacts/download-txt", 200, "", NoToken)
  /\ Len(contacts) = 2
  /\ sent.kind = "text"
  /\ StartsWith(sent.list[1],
                "#1\nName: Jane Doe\nEmail: jane@example.com\nMessage: Hi there\n"
                  \o "Date: 1/1/1970, 12:00:00 AM\n---\n\n#2\nName: ")

\* Restarts: logins, password changes, requests behind requireAuth and
\* submissions, with restarts of the server in between.
RestartPasswords == {PwDefault, PwSecret, PwLongA}

NextRestart ==
  \/ \E d \in StoreDeltas : AdvanceClock(d)
  \/ \E p \in RestartPasswords : LoginStart(Client, Admin, p, MaxHits)
  \/ \E r \in pending : LoginFinish(r)
  \/ \E h \in HeaderCarriers, cur \in {PwDefault, PwSecret} :
       ChangePasswordStart(Client, h, cur, PwLongA, MaxHits)
  \/ \E r \in pending : ChangePasswordFinish(r)
  \/ \E h \in HeaderCarriers : AuthCheck(Client, h, MaxHits)
  \/ \E b \in ContactBodies : SaveContact(Client, b, StoreHits)
  \/ Restart

SpecRestart == Init /\ [][NextRestart]_vars

\* C34: a restart leaves the registry empty, so that requireAuth refuses
\* every token there is, and leaves the credentials record (with the hash of
\* the last password change) and the list of the contact store as they were;
\* an entry that enters the registry is the token of a new login, never a
\* token issued before; the bootstrap returns the record it finds and the
\* default record only when it finds none.
C34_Restart ==
  [][/\ Restart =>
          /\ sessions' = <<>>
          /\ \A t \in Tokens :
               requireAuth(sessions', Carrier(t, NoToken, NoToken, NoToken)).status = 401
          /\ credentials' = credentials
          /\ contacts' = contacts
          /\ issued' = issued
     /\ \A t \in DOMAIN sessions' \ DOMAIN sessions : t > issued
     /\ initAdminCredentials(TRUE, credentials) = credentials
     /\ initAdminCredentials(FALSE, credentials) = DefaultCredentials
    ]_vars

\* The server has been restarted after a login, a password change and a
\* submission: the registry is empty, the record has the hash of the new
\* password, the store has the record.
C34_Witness ==
  /\ resp = Response("none", 0, "", NoToken)
  /\ issued >= 1
  /\ sessions = <<>>
  /\ lastChange.new = PwLongA
  /\ credentials.passwordHash = BcryptHash(PwLongA, BCRYPT_COST)
  /\ Len(contacts) = 1

\* A completed request of the given route: it was answered 200.
Completed(route) ==
  resp'.route = route /\ resp'.status = 200 /\ generalHits' # generalHits

\* C35: whatever requests ran before and whatever requests are suspended, a
\* save-contact answered 200 has put its record at the end of the list it
\* found, with every record of that list in its place; a record leaves the
\* store only in a step that is a delete answered 200 (or the removal of the
\* file from outside); and the store gains a record only in a step that is a
\* save-contact answered 200, so no deleted record comes back.
C35_AtomicAppends ==
  [][/\ Completed("/api/save-contact") =>
          /\ Len(contacts') = Len(contacts) + 1
          /\ SubSeq(contacts', 1, Len(contacts)) = contacts
          /\ contacts'[Len(contacts')].id = sent'.n
     /\ RecordLost =>
          \/ Completed("/api/contacts/delete-all")
          \/ Completed("/api/contacts/:id")
          \/ ContactsFileRemoved
     /\ (\/ Len(contacts') > Len(contacts)
         \/ \E i \in 1..Len(contacts') : contacts'[i] \notin Range(contacts)) =>
          Completed("/api/save-contact")
    ]_vars

\* While a login is suspended at bcrypt.compare, two submissions were saved
\* and the first one was deleted: the store holds the second one.
C35_Witness ==
  /\ resp = Response("/api/contacts/:id", 200, "", NoToken)
  /\ sent = Data("remaining", <<>>, 1)
  /\ pending # {}
  /\ Len(contacts) = 1
  /\ contacts[1].id = 1
  /\ mailQueue = <<0, 1>>

\* The contact store with a file that is damaged from outside: it holds no
\* text, text that is not JSON, or JSON that is not an array.
NextCorrupt ==
  \/ \E d \in StoreDeltas : AdvanceClock(d)
  \/ LoginStart(Client, Admin, PwDefault, StoreHits)
  \/ \E r \in pending : LoginFinish(r)
  \/ \E b \in ContactBodies : SaveContact(Client, b, StoreHits)
  \/ GetContacts(Client, StoreHits)
  \/ \E h \in HeaderCarriers : DownloadContacts(Client, h, StoreHits)
  \/ \E h \in HeaderCarriers, url \in StoreUrls : AdminRequest(Client, h, url, StoreHits)
  \/ \E h \in HeaderCarriers : DeleteAll(Client, h, StoreHits)
  \/ \E h \in HeaderCarriers : DeleteContact(Client, h, "0", StoreHits)
  \/ \E kind \in CorruptKinds : ContactsFileCorrupted(kind)

SpecCorrupt == Init /\ [][NextCorrupt]_vars

\* C36: a request that writes contacts.json leaves a JSON array in it; a
\* valid save-contact that finds a file that does not hold a JSON array is
\* answered 200 and leaves the array of its one record; GET /api/contacts
\* and the two deletes, when they reach such a file, answer 500 and leave it
\* as it is.
C36_ValidArray ==
  [][generalHits' # generalHits =>
       /\ (contacts' # contacts \/ corrupt' # corrupt) => corrupt' = "no"
       /\ (corrupt # "no" /\ resp'.route = "/api/save-contact"
             /\ resp'.error # "Validation failed") =>
            /\ resp'.status = 200
            /\ corrupt' = "no"
            /\ Len(contacts') = 1 /\ contacts'[1].id = sent'.n
       /\ (corrupt # "no" /\ resp'.route = "/api/contacts") =>
            /\ resp'.status = 500
            /\ UNCHANGED <<contacts, corrupt, contactsFile>>
       /\ (corrupt # "no" /\ resp'.status \notin {401, 429}
             /\ resp'.route \in {"/api/contacts/delete-all", "/api/contacts/:id"}) =>
            /\ resp'.status = 500
            /\ UNCHANGED <<contacts, corrupt, contactsFile>>
    ]_vars

\* Two password changes at once: a login, then change-password requests of
\* which two may be suspended at bcrypt at the same time, each holding the
\* record it read before it was suspended.
RacePasswords == {PwSecret, PwLongA}

NextRace ==
  \/ \E d \in StoreDeltas : AdvanceClock(d)
  \/ \E p \in {PwDefault, PwSecret} : LoginStart(Client, Admin, p, MaxHits)
  \/ \E r \in pending : LoginFinish(r)
  \/ \E h \in HeaderCarriers, cur \in {PwDefault, PwSecret}, new \in RacePasswords :
       ChangePasswordStartUpTo(Client, h, cur, new, MaxHits, MaxInflight + 1)
  \/ \E r \in pending : ChangePasswordFinish(r)

SpecRace == Init /\ [][NextRace]_vars

\* C37: a change-password that writes the credentials record is one whose
\* currentPassword matches the hash the file holds when it writes.
C37_NoStaleOverwrite ==
  [][(resp'.route = "/api/change-password" /\ resp'.status = 200) =>
       \A r \in pending \ pending' :
         BcryptCompare(r.password, credentials.passwordHash)
    ]_vars

\* The auth limiter under both of its routes: logins that succeed, that fail
\* on the credentials and that fail validation, and change-password requests
\* with and without a session, valid and not.
SharedUsernames == LimitUsernames \cup {Un("", "", FALSE)}

NextAuthShared ==
  \/ \E d \in WindowDeltas : AdvanceClock(d)
  \/ \E u \in SharedUsernames, p \in {PwDefault, PwSecret} :
       LoginStart(Client, u, p, Cap(Client, AUTH_MAX))
  \/ \E r \in pending : LoginFinish(r)
  \/ \E h \in HeaderCarriers, new \in {PwShort, PwSecret} :
       ChangePasswordStart(Client, h, PwDefault, new, Cap(Client, AUTH_MAX))
  \/ \E r \in pending : ChangePasswordFinish(r)

SpecAuthShared == Init /\ [][NextAuthShared]_vars

\* The hit of a request on the auth limiter's counter of the client.
AuthCounted == authHits'[Client] = Hit(authHits[Client])

\* C38: a login that the general limiter lets through counts on the auth
\* limiter's counter of its IP whatever becomes of it (400, 401, suspended at
\* bcrypt); a change-password counts on the same counter when requireAuth has
\* admitted it, and leaves that counter alone and takes one unit of the
\* general limiter when requireAuth has answered 401; a request that has
\* counted passes the auth limiter exactly when the counter is at most 5, so
\* at most 5 requests of a window pass it, over both routes.
C38_SharedAuthLimiter ==
  [][(generalHits' # generalHits /\ GeneralAdmits(Client)) =>
       /\ resp'.route = "/api/login" =>
            /\ AuthCounted
            /\ resp'.status \in {0, 400, 401, 429}
       /\ resp'.route = "/api/change-password" =>
            /\ generalHits'[Client] = Hit(generalHits[Client])
            /\ IF resp'.status = 401
                 THEN /\ resp'.error \in {"Authentication required", "Session expired"}
                      /\ authHits' = authHits
                 ELSE AuthCounted
       /\ authHits' # authHits =>
            /\ authHits'[Client].count =
                 IF authHits[Client].resetTime <= now THEN 1
                 ELSE authHits[Client].count + 1
            /\ (resp' = Response(resp'.route, 429, AuthMessage, NoToken))
                 <=> authHits'[Client].count > AUTH_MAX
            /\ authHits'[Client].count > AUTH_MAX => UNCHANGED <<pending, credentials>>
    ]_vars

\* The auth limiter has turned away a change-password that carried a live
\* session: it was the 6th request of the window on the counter, after two
\* logins and three password changes.
C38_Witness ==
  /\ resp = Response("/api/change-password", 429, AuthMessage, NoToken)
  /\ authHits[Client].count = AUTH_MAX + 1
  /\ loginHits[Client] = 2

\* Requests with tokens in several places at once: logins before and after
\* the expiry of the first session, then requests to a route behind
\* requireAuth and to /admin with tokens in up to two places.
AllCarriers ==
  { h \in [authorization : TokenVals, xSessionId : TokenVals,
           session : TokenVals, adminSession : TokenVals] :
      Cardinality({f \in DOMAIN h : h[f] # NoToken}) <= 2 }

NextPrecedence ==
  \/ \E d \in SessionDeltas : AdvanceClock(d)
  \/ LoginStart(Client, Admin, PwDefault, MaxHits)
  \/ \E r \in pending : LoginFinish(r)
  \/ \E h \in AllCarriers : AuthCheck(Client, h, MaxHits)
  \/ \E h \in AllCarriers, url \in StoreUrls : AdminRequest(Client, h, url, MaxHits)

SpecPrecedence == Init /\ [][NextPrecedence]_vars

\* The first token of a list of places, NoToken when all are empty.
FirstOf(places) ==
  IF \A i \in DOMAIN places : places[i] = NoToken THEN NoToken
  ELSE places[CHOOSE i \in DOMAIN places :
                /\ places[i] # NoToken
                /\ \A j \in 1..(i - 1) : places[j] = NoToken]

\* What a check of the one token t does to the registry and answers:
\* "absent" (no such entry, registry unchanged), "expired" (that entry
\* deleted, the others unchanged) or "live".
Verdict(t) ==
  IF t = NoToken \/ t \notin DOMAIN sessions THEN "absent"
  ELSE IF sessions[t].expiresAt < now THEN "expired"
  ELSE "live"

\* C39: requireAuth checks the first non-empty of Authorization,
\* x-session-id and the adminSession cookie, and the /admin gate the first
\* non-empty of Authorization, x-session-id, the `session` parameter and the
\* cookie, and nothing else: when that token is unknown the request is
\* refused and the registry unchanged, when it is expired the request is
\* refused and that entry, and no other, is deleted, whatever live token the
\* request carries in a later place; when it is live, it alone is extended.
C39_TokenPrecedence ==
  [][(generalHits' # generalHits /\ GeneralAdmits(Client)) =>
       /\ resp'.route = "/api/auth-check" =>
            \A h \in AllCarriers :
              AuthCheck(Client, h, MaxHits) =>
                LET t == FirstOf(<<h.authorization, h.xSessionId, h.adminSession>>) IN
                /\ Verdict(t) = "absent" =>
                     /\ resp' = Response("/api/auth-check", 401,
                                         "Authentication required", NoToken)
                     /\ sessions' = sessions
                /\ Verdict(t) = "expired" =>
                     /\ resp' = Response("/api/auth-check", 401, "Session expired",
                                         NoToken)
                     /\ sessions' = Remove(sessions, t)
                /\ Verdict(t) = "live" =>
                     /\ resp'.status = 200
                     /\ sessions' = [sessions EXCEPT ![t].expiresAt = now + SESSION_TTL]
       /\ resp'.route \in {"/admin/contacts", "/admin/contacts/download-txt"} =>
            \A h \in AllCarriers, url \in UrlsOf(resp'.route) \cap StoreUrls :
              AdminRequest(Client, h, url, MaxHits) =>
                LET t == FirstOf(<<h.authorization, h.xSessionId, h.session,
                                   h.adminSession>>) IN
                /\ Verdict(t) = "absent" =>
                     /\ resp'.status = 302 /\ sessions' = sessions
                /\ Verdict(t) = "expired" =>
                     /\ resp'.status = 302 /\ sessions' = Remove(sessions, t)
                /\ Verdict(t) = "live" => resp'.status # 302
    ]_vars

\* requireAuth has answered "Session expired" and has deleted the expired
\* entry of the first login, while the session of the second login, which
\* the request may carry in a later place, is live and untouched.
C39_Witness ==
  /\ resp = Response("/api/auth-check", 401, "Session expired", NoToken)
  /\ issued = 2
  /\ DOMAIN sessions = {2}
  /\ sessions[2].expiresAt = now + SESSION_TTL

\* C40: a login, however it ends, leaves every entry of the registry in it
\* and as it was; a change-password that gets past requireAuth removes no
\* entry and changes none, but for the expiry of the caller's entry that
\* requireAuth extends, and its handler, when it completes, leaves the
\* registry as it is, so that requireAuth goes on admitting every live token;
\* a change-password whose passwords pass is answered 200 and writes the new
\* hash whether or not the caller's entry is still there, with updatedBy
\* 'admin' when it is not.
C40_SessionsIndependent ==
  [][/\ resp'.route = "/api/login" =>
          \A t \in DOMAIN sessions : t \in DOMAIN sessions' /\ sessions'[t] = sessions[t]
     /\ (resp' = Awaiting("/api/change-password") /\ generalHits' # generalHits) =>
          \A t \in DOMAIN sessions :
            /\ t \in DOMAIN sessions'
            /\ \/ sessions'[t] = sessions[t]
               \/ sessions'[t] = [sessions[t] EXCEPT !.expiresAt = now + SESSION_TTL]
     /\ \A r \in pending \ pending' :
          r.kind = "change-password" =>
            /\ sessions' = sessions
            /\ (BcryptCompare(r.password, r.cred.passwordHash)
                  /\ ~BcryptCompare(r.newPassword, r.cred.passwordHash)) =>
                 /\ resp' = Response("/api/change-password", 200, "", NoToken)
                 /\ credentials'.passwordHash = BcryptHash(r.newPassword, BCRYPT_COST)
                 /\ r.token \notin DOMAIN sessions => credentials'.updatedBy = "admin"
                 /\ \A t \in Tokens :
                      Live(t) =>
                        requireAuth(sessions', Carrier(t, NoToken, NoToken, NoToken)).status
                          = 200
    ]_vars

\* The caller logged out while its change-password was suspended at bcrypt:
\* the change has completed, stamped 'admin', with no session left.
C40_Witness ==
  /\ resp = Response("/api/change-password", 200, "", NoToken)
  /\ issued = 1
  /\ sessions = <<>>
  /\ lastChange # NoChange
  /\ credentials.passwordHash = BcryptHash(lastChange.new, BCRYPT_COST)
  /\ credentials.updatedBy = "admin"
  /\ credentials.updatedAt = now

=============================================================================
